---------------------------- MODULE Spec2Model ----------------------------
(***************************************************************************)
(* Token lifecycle of the withings-mcp HTTP endpoints: the token store     *)
(* (getTokens / saveTokens), the proactive expiry check (ensureValidToken) *)
(* and the auto-refresh call wrapper (callWithAutoRefresh) in its five     *)
(* copies:                                                                 *)
(*   "blob"     api/mcp.ts, lines 1-250     (Vercel blob, Withings)        *)
(*   "kv"       api/mcp.ts, lines 250-514   (Vercel KV, Withings)          *)
(*   "key"      api/mcp/[key].ts            (Redis, Withings)              *)
(*   "withings" api/mcp/[withingsKey]/[whoopKey] (Redis, Withings)         *)
(*   "whoop"    api/mcp/[withingsKey]/[whoopKey] (Redis, WHOOP)            *)
(* Every await of the wrapper is one step of the model.  Strings that the  *)
(* code searches with includes() are tuples of characters; tokens are      *)
(* tuples <<"at", n>> / <<"rt", n>>, the empty tuple being the empty       *)
(* (falsy) string.                                                         *)
(***************************************************************************)
EXTENDS Integers, Sequences, FiniteSets, TLC

VARIABLES now, store, env, issued, calls, pc, variant, tokens, accessToken,
          newTokens, e, result, log, granted, norm, config, http, peer

vars == <<now, store, env, issued, calls, pc, variant, tokens, accessToken,
          newTokens, e, result, log, granted, norm, config, http, peer>>

(* ------------------------------ bounds --------------------------------- *)

\* number of clock ticks the model explores
MaxTicks == 1

\* number of callWithAutoRefresh calls the model explores
MaxCalls == 1

(* --------------------------- program constants ------------------------- *)

\* 5 * 60 * 1000: the proactive-refresh buffer in milliseconds
RefreshBufferMs == 300000

\* Date.now() of the first request, in milliseconds
T0 == 1000000

\* amount of time that passes in one clock tick, in milliseconds
TickMs == 200000

\* expires_in values (seconds) the token endpoints answer with: three hours
ExpiresIn == {10800}

Variants == {"blob", "kv", "key", "withings", "whoop"}

Providers == {"withings", "whoop"}

Provider(v) == IF v = "whoop" THEN "whoop" ELSE "withings"

\* the durable location each copy reads and writes
StoreKey(v) ==
  CASE v = "blob"     -> "blob:withings-tokens.json"
    [] v = "kv"       -> "kv:withings_tokens"
    [] v = "key"      -> "redis:withings_tokens"
    [] v = "withings" -> "redis:withings_tokens"
    [] v = "whoop"    -> "redis:whoop_tokens"

StoreKeys == {StoreKey(v) : v \in Variants}

\* JavaScript null / undefined
Null == [null |-> TRUE]

\* the empty string (falsy)
Empty == << >>

Truthy(s) == s # Empty /\ s # Null

(* ------------------------------ strings -------------------------------- *)

\* String.prototype.includes on tuples of characters
Includes(s, sub) ==
  \E i \in 1..(Len(s) - Len(sub) + 1) : SubSeq(s, i, i + Len(sub) - 1) = sub

M401 == <<"4", "0", "1">>
M404 == <<"4", "0", "4">>
Minvalid == <<"i", "n", "v", "a", "l", "i", "d">>
Mexpired == <<"e", "x", "p", "i", "r", "e", "d">>
MUnauthorized == <<"U", "n", "a", "u", "t", "h", "o", "r", "i", "z", "e", "d">>
Munauthorized == <<"u", "n", "a", "u", "t", "h", "o", "r", "i", "z", "e", "d">>

\* messages of the errors an operation throws: the upstream response text
\* behind "WHOOP API error: " / "Failed to get measurements: "; the empty
\* tuple is an error without a message
Messages ==
  { << >>,
    <<"H", "T", "T", "P", " ", "4", "0", "1">>,
    <<"4", "0", "4", " ", "N", "o", "t", " ", "F", "o", "u", "n", "d">>,
    <<"i", "n", "v", "a", "l", "i", "d", "_", "t", "o", "k", "e", "n">>,
    <<"t", "o", "k", "e", "n", " ", "e", "x", "p", "i", "r", "e", "d">>,
    MUnauthorized,
    Munauthorized,
    <<"5", "0", "0">> }

\* mutant: '404' is a marker in every copy
isAuthError_404Everywhere(v, m) ==
  \/ Includes(m, M401) \/ Includes(m, M404) \/ Includes(m, Minvalid)
  \/ Includes(m, Mexpired) \/ (v = "whoop" /\ Includes(m, MUnauthorized))

\* mutant: the catch block refreshes on every failure
isAuthError_Any(v, m) == TRUE

\* the condition of the catch block of callWithAutoRefresh
isAuthError(v, m) ==
  IF v = "whoop"
  THEN \/ Includes(m, M401) \/ Includes(m, M404) \/ Includes(m, Minvalid)
       \/ Includes(m, Mexpired) \/ Includes(m, MUnauthorized)
  ELSE Includes(m, M401) \/ Includes(m, Minvalid) \/ Includes(m, Mexpired)

(* ------------------------------ token store ---------------------------- *)

\* the record built from WITHINGS_ACCESS_TOKEN / WITHINGS_REFRESH_TOKEN
\* (WHOOP_ACCESS_TOKEN / WHOOP_REFRESH_TOKEN)
EnvRecord(p) == [accessToken |-> <<"env_at", 0>>, refreshToken |-> <<"env_rt", 0>>,
                 expiresAt |-> 0]

\* mutant: a record is returned although the durable read failed
getTokens_IgnoresReadFailure(v, readOk) ==
  IF store[StoreKey(v)] # Null THEN store[StoreKey(v)]
  ELSE IF env[Provider(v)] THEN EnvRecord(Provider(v))
  ELSE Null

\* mutant: the static configuration is consulted before the durable store
getTokens_EnvFirst(v, readOk) ==
  IF env[Provider(v)] THEN EnvRecord(Provider(v))
  ELSE IF readOk /\ store[StoreKey(v)] # Null THEN store[StoreKey(v)]
  ELSE Null

\* getTokens: durable store first, static configuration second, else null
getTokens(v, readOk) ==
  IF readOk /\ store[StoreKey(v)] # Null THEN store[StoreKey(v)]
  ELSE IF env[Provider(v)] THEN EnvRecord(Provider(v))
  ELSE Null

\* mutant: expires_in is taken for milliseconds
StoredOf_Seconds(resp, t) ==
  [accessToken |-> resp.access_token, refreshToken |-> resp.refresh_token,
   expiresAt |-> t + resp.expires_in]

\* the StoredTokens record saveTokens builds from a token response
StoredOf(resp, t) ==
  [accessToken |-> resp.access_token, refreshToken |-> resp.refresh_token,
   expiresAt |-> t + resp.expires_in * 1000]

\* mutant: every copy catches a failed write
swallowsSaveFailure_Always(v) == TRUE

\* saveTokens of api/mcp.ts catches a failed write; the Redis copies do not
swallowsSaveFailure(v) == v \in {"blob", "kv"}

\* mutant: the expiresAt > 0 test is forgotten
isExpired_NoSentinel(t, clock) == t.expiresAt < clock + RefreshBufferMs

\* mutant: the comparison with the buffer is reversed
isExpired_Reversed(t, clock) == t.expiresAt > 0 /\ t.expiresAt > clock + RefreshBufferMs

\* const isExpired = tokens.expiresAt > 0 && tokens.expiresAt < Date.now() + 5 * 60 * 1000
isExpired(t, clock) == t.expiresAt > 0 /\ t.expiresAt < clock + RefreshBufferMs

\* mutant: the 5-minute buffer is forgotten
needsProactiveRefresh_NoBuffer(v, t, clock) ==
  /\ t.expiresAt > 0 /\ t.expiresAt < clock
  /\ v = "kv" \/ Truthy(t.refreshToken)

\* the condition guarding the proactive refresh in ensureValidToken
needsProactiveRefresh(v, t, clock) ==
  IF v = "kv" THEN isExpired(t, clock)
  ELSE isExpired(t, clock) /\ Truthy(t.refreshToken)

\* the token response of an accepted refresh
TokenResponse(n, secs) ==
  [access_token |-> <<"at", n>>, refresh_token |-> <<"rt", n>>, expires_in |-> secs]

(* ------------------------------- errors -------------------------------- *)

\* new Error("No valid ... access token. Please authorize first.")
NotAuthorized == [name |-> "NotAuthorized", attempt |-> 0, message |-> Empty]

\* the error thrown by the attempt-th invocation of fn
FnError(attempt, m) == [name |-> "UpstreamRequestFailed", attempt |-> attempt, message |-> m]

\* new Error("Token refresh failed: ...") / new Error("No refresh token available")
RefreshFailed == [name |-> "RefreshFailed", attempt |-> 0, message |-> Empty]

\* the rejection of redis.set
StoreWriteFailed == [name |-> "StoreWriteFailed", attempt |-> 0, message |-> Empty]

\* mutant: the refresh error leaves ensureValidToken
ensureCatch_Propagates(err) == err

\* catch { return null } of ensureValidToken, then
\* if (!accessToken) throw new Error("No valid ... access token. ...")
ensureCatch(err) == NotAuthorized

\* mutant: the first error is thrown in place of the inner one
rethrowInner_ThrowsFirst(refreshError, e0) == e0

\* mutant: a failed reactive refresh is degraded like a proactive one
rethrowInner_Degrades(refreshError, e0) ==
  IF refreshError.name = "RefreshFailed" THEN NotAuthorized ELSE refreshError

\* an error raised inside the catch block of callWithAutoRefresh leaves the
\* wrapper as it is (WHOOP: catch (refreshError) { throw refreshError })
rethrowInner(refreshError, e0) == refreshError

\* mutant: the retry reuses the token of the first attempt
retryArgument_Stale(nt, at) == at

\* the argument of the retry: fn(newTokens.access_token)
retryArgument(nt, at) == nt.access_token

Throw(err) == [kind |-> "error", err |-> err]

Return(val) == [kind |-> "ok", value |-> val]

(* ------------------------------ initial state -------------------------- *)

NearExpiry == T0 + 60000

FarExpiry == T0 + RefreshBufferMs + TickMs

\* records the durable store may hold when the first request arrives
InitRecords ==
  { [accessToken |-> <<"at", 0>>, refreshToken |-> r, expiresAt |-> x] :
      r \in {Empty, <<"rt", 0>>}, x \in {0, NearExpiry, FarExpiry} }

\* the environment of a deployment with every client credential set and no
\* path secret ("" is an unset variable: undefined and "" are both falsy)
Configured ==
  [credentials |-> [p \in Providers |-> TRUE], secret |-> [p \in Providers |-> ""]]

\* no HTTP request is being handled
NoRequest == [stage |-> "idle", request |-> Null, response |-> Null]

\* no second request runs beside the first
NoPeer == [pc |-> "idle", kind |-> "none"]

\* no request under way: nothing is being normalized, no call has a frame
Quiescent ==
  /\ config = Configured
  /\ http = NoRequest
  /\ peer = NoPeer
  /\ now = T0
  /\ issued = 0
  /\ calls = 0
  /\ pc = "idle"
  /\ variant = "none"
  /\ tokens = Null
  /\ accessToken = Null
  /\ newTokens = Null
  /\ e = Null
  /\ result = Null
  /\ log = << >>
  /\ granted = {}

Init ==
  /\ now = T0
  /\ norm = Null
  /\ config = Configured
  /\ http = NoRequest
  /\ peer = NoPeer
  /\ \E r \in InitRecords \cup {Null} : store = [k \in StoreKeys |-> r]
  /\ \E configured \in BOOLEAN : env = [p \in Providers |-> configured]
  /\ issued = 0
  /\ calls = 0
  /\ pc = "idle"
  /\ variant = "none"
  /\ tokens = Null
  /\ accessToken = Null
  /\ newTokens = Null
  /\ e = Null
  /\ result = Null
  /\ log = << >>
  /\ granted = {}

(* -------------------------------- actions ------------------------------ *)

\* time passes; only the steps that read Date.now() (the expiry check and
\* saveTokens) can tell when it passed, so the clock moves right before them
Tick ==
  /\ pc \in {"ensureValidToken", "proactiveSave", "reactiveSave"}
  /\ now < T0 + MaxTicks * TickMs
  /\ now' = now + TickMs
  /\ UNCHANGED <<store, env, issued, calls, pc, variant, tokens, accessToken,
                 newTokens, e, result, log, granted, norm, config, http, peer>>

\* a tool handler enters callWithAutoRefresh(fn)
callWithAutoRefresh(v) ==
  /\ pc = "idle"
  /\ calls < MaxCalls
  /\ calls' = calls + 1
  /\ variant' = v
  /\ pc' = "ensureValidToken"
  /\ tokens' = Null
  /\ accessToken' = Null
  /\ newTokens' = Null
  /\ e' = Null
  /\ result' = Null
  /\ log' = << >>
  /\ UNCHANGED <<norm, granted, now, store, env, issued, config, http, peer>>

\* ensureValidToken up to its first branch: getTokens, null check, isExpired
ensureValidToken ==
  /\ pc = "ensureValidToken"
  /\ \E readOk \in BOOLEAN :
       LET t == getTokens(variant, readOk) IN
         /\ tokens' = t
         /\ log' = Append(log, [ev |-> "load", ok |-> readOk, rec |-> t, clock |-> now,
                              store |-> store])
         /\ IF t = Null
            THEN /\ pc' = "done"
                 /\ result' = Throw(NotAuthorized)
                 /\ accessToken' = Null
            ELSE IF needsProactiveRefresh(variant, t, now)
            THEN /\ pc' = "proactiveRefresh"
                 /\ UNCHANGED <<result, accessToken>>
            ELSE /\ pc' = "fn"
                 /\ accessToken' = t.accessToken
                 /\ UNCHANGED result
  /\ UNCHANGED <<norm, granted, now, store, env, issued, calls, variant, newTokens, e, config, http, peer>>

\* refreshAccessToken(config) inside the try block of ensureValidToken; the
\* token endpoint accepts a request only when it carries the client credentials
proactiveRefresh ==
  /\ pc = "proactiveRefresh"
  /\ IF ~Truthy(tokens.refreshToken)
     THEN \* throw new Error("No refresh token available"), caught: return null
          /\ pc' = "done"
          /\ result' = Throw(ensureCatch(RefreshFailed))
          /\ UNCHANGED <<issued, newTokens, log>>
     ELSE \/ \E secs \in ExpiresIn :
               /\ config.credentials[Provider(variant)]
               /\ issued' = issued + 1
               /\ newTokens' = TokenResponse(issued + 1, secs)
               /\ log' = Append(log, [ev |-> "token", phase |-> "proactive",
                                      presented |-> tokens.refreshToken,
                                      response |-> TokenResponse(issued + 1, secs),
                                      store |-> store])
               /\ pc' = "proactiveSave"
               /\ UNCHANGED result
          \/ /\ log' = Append(log, [ev |-> "token", phase |-> "proactive",
                                    presented |-> tokens.refreshToken,
                                    response |-> Null, store |-> store])
             /\ pc' = "done"
             /\ result' = Throw(ensureCatch(RefreshFailed))
             /\ UNCHANGED <<issued, newTokens>>
  /\ UNCHANGED <<norm, granted, now, store, env, calls, variant, tokens, accessToken, e, config, http, peer>>

\* await saveTokens(newTokens); return newTokens.access_token
proactiveSave ==
  /\ pc = "proactiveSave"
  /\ \E writeOk \in BOOLEAN :
       /\ store' = IF writeOk
                   THEN [store EXCEPT ![StoreKey(variant)] = StoredOf(newTokens, now)]
                   ELSE store
       /\ log' = Append(log, [ev |-> "save", phase |-> "proactive", ok |-> writeOk,
                              rec |-> StoredOf(newTokens, now), store |-> store'])
       /\ IF writeOk \/ swallowsSaveFailure(variant)
          THEN /\ accessToken' = newTokens.access_token
               /\ pc' = "fn"
               /\ UNCHANGED result
          ELSE \* the rejected write is caught by ensureValidToken: return null
               /\ pc' = "done"
               /\ result' = Throw(ensureCatch(StoreWriteFailed))
               /\ UNCHANGED accessToken
  /\ UNCHANGED <<norm, granted, now, env, issued, calls, variant, tokens, newTokens, e, config, http, peer>>

\* return await fn(accessToken), and the condition of the catch block
fn ==
  /\ pc = "fn"
  /\ \/ /\ log' = Append(log, [ev |-> "fn", attempt |-> 1, token |-> accessToken,
                               failed |-> FALSE, message |-> Empty, store |-> store])
        /\ pc' = "done"
        /\ result' = Return(accessToken)
        /\ UNCHANGED e
     \/ \E m \in Messages :
          /\ log' = Append(log, [ev |-> "fn", attempt |-> 1, token |-> accessToken,
                                 failed |-> TRUE, message |-> m, store |-> store])
          /\ IF isAuthError(variant, m)
             THEN /\ e' = FnError(1, m)
                  /\ pc' = "reactiveGetTokens"
                  /\ UNCHANGED result
             ELSE /\ pc' = "done"
                  /\ result' = Throw(FnError(1, m))
                  /\ UNCHANGED e
  /\ UNCHANGED <<norm, granted, now, store, env, issued, calls, variant, tokens, accessToken, newTokens, config, http, peer>>

\* mutant: without a refresh token the catch block reports NotAuthorized
reactiveGetTokens_NotAuthorized ==
  /\ pc = "reactiveGetTokens"
  /\ \E readOk \in BOOLEAN :
       LET t == getTokens(variant, readOk) IN
         /\ tokens' = t
         /\ log' = Append(log, [ev |-> "load", ok |-> readOk, rec |-> t, clock |-> now,
                              store |-> store])
         /\ IF t # Null /\ Truthy(t.refreshToken)
            THEN /\ pc' = "reactiveRefresh"
                 /\ UNCHANGED result
            ELSE /\ pc' = "done"
                 /\ result' = Throw(NotAuthorized)
  /\ UNCHANGED <<norm, granted, now, store, env, issued, calls, variant, accessToken, newTokens, e, config, http, peer>>

\* const tokens = await getTokens(); if (tokens?.refreshToken) ... else throw e
reactiveGetTokens ==
  /\ pc = "reactiveGetTokens"
  /\ \E readOk \in BOOLEAN :
       LET t == getTokens(variant, readOk) IN
         /\ tokens' = t
         /\ log' = Append(log, [ev |-> "load", ok |-> readOk, rec |-> t, clock |-> now,
                              store |-> store])
         /\ IF t # Null /\ Truthy(t.refreshToken)
            THEN /\ pc' = "reactiveRefresh"
                 /\ UNCHANGED result
            ELSE /\ pc' = "done"
                 /\ result' = Throw(e)
  /\ UNCHANGED <<norm, granted, now, store, env, issued, calls, variant, accessToken, newTokens, e, config, http, peer>>

\* const newTokens = await refreshAccessToken(config) in the catch block
reactiveRefresh ==
  /\ pc = "reactiveRefresh"
  /\ \/ \E secs \in ExpiresIn :
          /\ config.credentials[Provider(variant)]
          /\ issued' = issued + 1
          /\ newTokens' = TokenResponse(issued + 1, secs)
          /\ log' = Append(log, [ev |-> "token", phase |-> "reactive",
                                 presented |-> tokens.refreshToken,
                                 response |-> TokenResponse(issued + 1, secs),
                                 store |-> store])
          /\ pc' = "reactiveSave"
          /\ UNCHANGED result
     \/ /\ log' = Append(log, [ev |-> "token", phase |-> "reactive",
                               presented |-> tokens.refreshToken,
                               response |-> Null, store |-> store])
        /\ pc' = "done"
        /\ result' = Throw(rethrowInner(RefreshFailed, e))
        /\ UNCHANGED <<issued, newTokens>>
  /\ UNCHANGED <<norm, granted, now, store, env, calls, variant, tokens, accessToken, e, config, http, peer>>

\* await saveTokens(newTokens) in the catch block
reactiveSave ==
  /\ pc = "reactiveSave"
  /\ \E writeOk \in BOOLEAN :
       /\ store' = IF writeOk
                   THEN [store EXCEPT ![StoreKey(variant)] = StoredOf(newTokens, now)]
                   ELSE store
       /\ log' = Append(log, [ev |-> "save", phase |-> "reactive", ok |-> writeOk,
                              rec |-> StoredOf(newTokens, now), store |-> store'])
       /\ IF writeOk \/ swallowsSaveFailure(variant)
          THEN /\ pc' = "retry"
               /\ UNCHANGED result
          ELSE /\ pc' = "done"
               /\ result' = Throw(rethrowInner(StoreWriteFailed, e))
  /\ UNCHANGED <<norm, granted, now, env, issued, calls, variant, tokens, accessToken, newTokens, e, config, http, peer>>

\* mutant: a retry that fails with an authorization marker refreshes again
retry_Loops ==
  /\ pc = "retry"
  /\ LET arg == retryArgument(newTokens, accessToken) IN
       \/ /\ log' = Append(log, [ev |-> "fn", attempt |-> 2, token |-> arg,
                                  failed |-> FALSE, message |-> Empty, store |-> store])
          /\ result' = Return(arg)
          /\ pc' = "done"
       \/ \E m \in Messages :
            /\ log' = Append(log, [ev |-> "fn", attempt |-> 2, token |-> arg,
                                   failed |-> TRUE, message |-> m, store |-> store])
            /\ IF isAuthError(variant, m)
               THEN pc' = "reactiveGetTokens" /\ UNCHANGED result
               ELSE pc' = "done" /\ result' = Throw(rethrowInner(FnError(2, m), e))
  /\ UNCHANGED <<norm, granted, now, store, env, issued, calls, variant, tokens, accessToken, newTokens, e, config, http, peer>>

\* return await fn(newTokens.access_token)
retry ==
  /\ pc = "retry"
  /\ LET arg == retryArgument(newTokens, accessToken) IN
       \/ /\ log' = Append(log, [ev |-> "fn", attempt |-> 2, token |-> arg,
                                  failed |-> FALSE, message |-> Empty, store |-> store])
          /\ result' = Return(arg)
       \/ \E m \in Messages :
            /\ log' = Append(log, [ev |-> "fn", attempt |-> 2, token |-> arg,
                                   failed |-> TRUE, message |-> m, store |-> store])
            /\ result' = Throw(rethrowInner(FnError(2, m), e))
  /\ pc' = "done"
  /\ UNCHANGED <<norm, granted, now, store, env, issued, calls, variant, tokens, accessToken, newTokens, e, config, http, peer>>

\* the tool handler receives the result or the error; the call's frame is gone
settle ==
  /\ pc = "done"
  /\ pc' = "idle"
  /\ tokens' = Null
  /\ accessToken' = Null
  /\ newTokens' = Null
  /\ e' = Null
  /\ result' = Null
  /\ log' = << >>
  /\ variant' = "none"
  /\ UNCHANGED <<norm, granted, now, store, env, issued, calls, config, http, peer>>

(* ---------- the operations outside the wrapper: one step each ---------- *)

\* the text a tool returns when there is nothing to refresh
NoTokensConfigured == [kind |-> "ok", value |-> "No tokens configured."]

\* mutant: a record that is not near expiry is left alone
refreshTool_SkipsWhenFresh(v) ==
  /\ pc = "idle"
  /\ calls < MaxCalls
  /\ calls' = calls + 1
  /\ \E readOk \in BOOLEAN :
       LET t == getTokens(v, readOk) IN
         IF t = Null
         THEN /\ result' = NoTokensConfigured
              /\ newTokens' = Null
              /\ UNCHANGED <<store, issued>>
         ELSE IF ~isExpired(t, now)
         THEN /\ result' = Return("Token refreshed")
              /\ newTokens' = Null
              /\ UNCHANGED <<store, issued>>
         ELSE IF ~Truthy(t.refreshToken)
         THEN /\ result' = Throw(RefreshFailed)
              /\ newTokens' = Null
              /\ UNCHANGED <<store, issued>>
         ELSE \/ /\ result' = Throw(RefreshFailed)
                 /\ newTokens' = Null
                 /\ UNCHANGED <<store, issued>>
              \/ \E secs \in ExpiresIn, writeOk \in BOOLEAN :
                   LET resp == TokenResponse(issued + 1, secs) IN
                     /\ config.credentials[Provider(v)]
                     /\ issued' = issued + 1
                     /\ newTokens' = resp
                     /\ store' = IF writeOk
                                 THEN [store EXCEPT ![StoreKey(v)] = StoredOf(resp, now)]
                                 ELSE store
                     /\ result' = IF writeOk \/ swallowsSaveFailure(v)
                                  THEN Return("Token refreshed")
                                  ELSE Throw(StoreWriteFailed)
  /\ UNCHANGED <<norm, now, env, pc, variant, tokens, accessToken, e, log, granted, config, http, peer>>

\* handleToolCall, case "refresh_token" / "withings_refresh_token" /
\* "whoop_refresh_token": getTokens, refreshAccessToken whatever expiresAt
\* is, saveTokens, all in one request
refreshTool(v) ==
  /\ pc = "idle"
  /\ calls < MaxCalls
  /\ calls' = calls + 1
  /\ \E readOk \in BOOLEAN :
       LET t == getTokens(v, readOk) IN
         IF t = Null
         THEN /\ result' = NoTokensConfigured
              /\ newTokens' = Null
              /\ UNCHANGED <<store, issued>>
         ELSE IF ~Truthy(t.refreshToken)
         THEN /\ result' = Throw(RefreshFailed)
              /\ newTokens' = Null
              /\ UNCHANGED <<store, issued>>
         ELSE \/ /\ result' = Throw(RefreshFailed)
                 /\ newTokens' = Null
                 /\ UNCHANGED <<store, issued>>
              \/ \E secs \in ExpiresIn, writeOk \in BOOLEAN :
                   LET resp == TokenResponse(issued + 1, secs) IN
                     /\ config.credentials[Provider(v)]
                     /\ issued' = issued + 1
                     /\ newTokens' = resp
                     /\ store' = IF writeOk
                                 THEN [store EXCEPT ![StoreKey(v)] = StoredOf(resp, now)]
                                 ELSE store
                     /\ result' = IF writeOk \/ swallowsSaveFailure(v)
                                  THEN Return("Token refreshed")
                                  ELSE Throw(StoreWriteFailed)
  /\ UNCHANGED <<norm, now, env, pc, variant, tokens, accessToken, e, log, granted, config, http, peer>>

\* mutant: the refreshed pair is written under both Redis keys
keepaliveProvider_WritesBoth(st, n, k, readOk, accepted, writeOk, secs, clock) ==
  IF ~readOk
  THEN [store |-> st, issued |-> n, line |-> "error"]
  ELSE IF st[k] = Null \/ ~Truthy(st[k].refreshToken)
  THEN [store |-> st, issued |-> n, line |-> "no tokens found"]
  ELSE IF ~accepted
  THEN [store |-> st, issued |-> n, line |-> "error"]
  ELSE IF ~writeOk
  THEN [store |-> st, issued |-> n + 1, line |-> "error"]
  ELSE [store |-> [st EXCEPT
                     !["redis:withings_tokens"] = StoredOf(TokenResponse(n + 1, secs), clock),
                     !["redis:whoop_tokens"] = StoredOf(TokenResponse(n + 1, secs), clock)],
        issued |-> n + 1, line |-> "refreshed"]

\* one try block of the keepalive job: the provider's record under key k,
\* in store st with n tokens issued so far; the catch turns every failure
\* into a result line
keepaliveProvider(st, n, k, readOk, accepted, writeOk, secs, clock) ==
  IF ~readOk
  THEN [store |-> st, issued |-> n, line |-> "error"]
  ELSE IF st[k] = Null \/ ~Truthy(st[k].refreshToken)
  THEN [store |-> st, issued |-> n, line |-> "no tokens found"]
  ELSE IF ~accepted
  THEN [store |-> st, issued |-> n, line |-> "error"]
  ELSE IF ~writeOk
  THEN [store |-> st, issued |-> n + 1, line |-> "error"]
  ELSE [store |-> [st EXCEPT ![k] = StoredOf(TokenResponse(n + 1, secs), clock)],
        issued |-> n + 1, line |-> "refreshed"]

\* mutant: a failure of the Withings block ends the run
keepalive_StopsAtFirstError ==
  /\ pc = "idle"
  /\ calls < MaxCalls
  /\ calls' = calls + 1
  /\ \/ /\ result' = [kind |-> "response", status |-> 401, results |-> << >>]
        /\ UNCHANGED <<store, issued>>
     \/ \E readW, acceptedW, writeW, readH, acceptedH, writeH \in BOOLEAN :
        \E secs \in ExpiresIn :
          LET w == keepaliveProvider(store, issued, "redis:withings_tokens", readW,
                                     acceptedW /\ config.credentials["withings"],
                                     writeW, secs, now)
              h == keepaliveProvider(w.store, w.issued, "redis:whoop_tokens", readH,
                                     acceptedH /\ config.credentials["whoop"],
                                     writeH, secs, now)
          IN IF w.line = "error"
             THEN /\ store' = w.store
                  /\ issued' = w.issued
                  /\ result' = [kind |-> "response", status |-> 200,
                                results |-> <<w.line>>]
             ELSE /\ store' = h.store
                  /\ issued' = h.issued
                  /\ result' = [kind |-> "response", status |-> 200,
                                results |-> <<w.line, h.line>>]
  /\ newTokens' = Null
  /\ UNCHANGED <<norm, now, env, pc, variant, tokens, accessToken, e, log, granted, config, http, peer>>

\* GET of api/cron/keepalive: the cron-secret check, then Withings, then WHOOP
keepalive ==
  /\ pc = "idle"
  /\ calls < MaxCalls
  /\ calls' = calls + 1
  /\ \/ /\ result' = [kind |-> "response", status |-> 401, results |-> << >>]
        /\ UNCHANGED <<store, issued>>
     \/ \E readW, acceptedW, writeW, readH, acceptedH, writeH \in BOOLEAN :
        \E secs \in ExpiresIn :
          LET w == keepaliveProvider(store, issued, "redis:withings_tokens", readW,
                                     acceptedW /\ config.credentials["withings"],
                                     writeW, secs, now)
              h == keepaliveProvider(w.store, w.issued, "redis:whoop_tokens", readH,
                                     acceptedH /\ config.credentials["whoop"],
                                     writeH, secs, now)
          IN /\ store' = h.store
             /\ issued' = h.issued
             /\ result' = [kind |-> "response", status |-> 200,
                           results |-> <<w.line, h.line>>]
  /\ newTokens' = Null
  /\ UNCHANGED <<norm, now, env, pc, variant, tokens, accessToken, e, log, granted, config, http, peer>>

\* mutant: the exchange writes the issued pair to the provider's record
exchangeCode_Saves(p) ==
  /\ pc = "idle"
  /\ p \notin granted
  /\ \/ \E secs \in ExpiresIn :
          /\ issued' = issued + 1
          /\ granted' = granted \cup {p}
          /\ store' = [store EXCEPT
                         ![StoreKey(p)] = StoredOf(TokenResponse(issued + 1, secs), now)]
          /\ result' = [kind |-> "ok", value |-> TokenResponse(issued + 1, secs)]
     \/ /\ result' = Throw([name |-> "ExchangeFailed", attempt |-> 0, message |-> Empty])
        /\ UNCHANGED <<issued, granted, store>>
  /\ newTokens' = Null
  /\ UNCHANGED <<norm, now, env, calls, pc, variant, tokens, accessToken, e, log, config, http, peer>>

\* the authorization-code exchange of provider p (OAuth callback page or
\* exchange_code tool): the token endpoint's answer is rendered to the user
exchangeCode(p) ==
  /\ pc = "idle"
  /\ p \notin granted
  /\ \/ \E secs \in ExpiresIn :
          /\ issued' = issued + 1
          /\ granted' = granted \cup {p}
          /\ result' = [kind |-> "ok", value |-> TokenResponse(issued + 1, secs)]
     \/ /\ result' = Throw([name |-> "ExchangeFailed", attempt |-> 0, message |-> Empty])
        /\ UNCHANGED <<issued, granted>>
  /\ newTokens' = Null
  /\ UNCHANGED <<norm, now, store, env, calls, pc, variant, tokens, accessToken, e, log, config, http, peer>>

Next ==
  \/ Tick
  \/ \E v \in Variants : refreshTool(v)
  \/ keepalive
  \/ \E v \in Variants : callWithAutoRefresh(v)
  \/ ensureValidToken
  \/ proactiveRefresh
  \/ proactiveSave
  \/ fn
  \/ reactiveGetTokens
  \/ reactiveRefresh
  \/ reactiveSave
  \/ retry
  \/ settle

Spec == Init /\ [][Next]_vars

\* the endpoint api/mcp/[withingsKey]/[whoopKey] together with the
\* authorization-code exchanges of its two providers
GrantNext ==
  \/ Tick
  \/ \E p \in Providers : exchangeCode(p)
  \/ \E v \in Providers : callWithAutoRefresh(v)
  \/ ensureValidToken
  \/ proactiveRefresh
  \/ proactiveSave
  \/ fn
  \/ reactiveGetTokens
  \/ reactiveRefresh
  \/ reactiveSave
  \/ retry
  \/ settle

GrantSpec == Init /\ [][GrantNext]_vars

(* ------------------------- reading the call's log ---------------------- *)

Idx(kind) == {i \in DOMAIN log : log[i].ev = kind}

FnIdx == Idx("fn")

TokenIdx == Idx("token")

PhaseIdx(kind, phase) == {i \in Idx(kind) : log[i].phase = phase}

\* the record the first getTokens of the call returned, and the clock then
Loaded == log[1].rec

LoadedAt == log[1].clock

Started == Len(log) >= 1

NearExpiryLoaded ==
  /\ Started /\ Loaded # Null
  /\ Loaded.expiresAt > 0 /\ Loaded.expiresAt < LoadedAt + 300000

\* the authorization markers of each copy, as the catch blocks spell them
Marked(v, m) ==
  \/ Includes(m, M401) \/ Includes(m, Minvalid) \/ Includes(m, Mexpired)
  \/ v = "whoop" /\ (Includes(m, M404) \/ Includes(m, MUnauthorized))

FirstFnFailed == FnIdx # {} /\ \E i \in FnIdx : log[i].attempt = 1 /\ log[i].failed

FirstFn == CHOOSE i \in FnIdx : log[i].attempt = 1

(* -------------------------------- claims ------------------------------- *)

\* C1: when the first load of a call yields nothing (the durable read fails
\* or finds no record, and no static access+refresh pair is configured), the
\* call ends with NotAuthorized, having invoked no operation, called no
\* token endpoint and written nothing to the store.
C1_NotAuthorizedWhenNoTokens ==
  (/\ Started
   /\ ~log[1].ok \/ log[1].store[StoreKey(variant)] = Null
   /\ ~env[Provider(variant)])
  => /\ pc = "done"
     /\ result = [kind |-> "error", err |-> NotAuthorized]
     /\ Len(log) = 1
     /\ store = log[1].store

C1_Witness ==
  /\ pc = "done" /\ variant = "whoop" /\ ~env["whoop"]
  /\ ~log[1].ok /\ log[1].store["redis:whoop_tokens"] # Null
  /\ result = [kind |-> "error", err |-> NotAuthorized]

\* C2 as stated: for a loaded record with expiresAt > 0 and
\* expiresAt < now + 5 minutes, the first invocation of the operation comes
\* after an accepted token-endpoint call and receives the newly issued
\* access token, never the stored one.
C2_Original ==
  (NearExpiryLoaded /\ FnIdx # {})
  => \E j \in TokenIdx :
       /\ j < FirstFn
       /\ log[j].response # Null
       /\ log[FirstFn].token = log[j].response.access_token
       /\ log[FirstFn].token # Loaded.accessToken

\* C2 amended: for a loaded record with expiresAt > 0,
\* expiresAt < now + 5 minutes and a non-empty refresh token, the token
\* endpoint is called right after the load, and the first invocation of the
\* operation comes after that call was accepted and receives the newly
\* issued access token, never the stored one.
C2_ProactiveRefreshBeforeCall ==
  (NearExpiryLoaded /\ Truthy(Loaded.refreshToken))
  => /\ pc # "fn" \/ Len(log) > 1
     /\ Len(log) >= 2 => log[2].ev = "token" /\ log[2].phase = "proactive"
                         /\ log[2].presented = Loaded.refreshToken
     /\ FnIdx # {} =>
          /\ log[2].response # Null
          /\ log[FirstFn].token = log[2].response.access_token
          /\ log[FirstFn].token # Loaded.accessToken

C2_Witness ==
  /\ NearExpiryLoaded /\ Truthy(Loaded.refreshToken)
  /\ pc = "done" /\ result.kind = "ok"
  /\ result.value = log[2].response.access_token

\* C3: when the token endpoint rejects the proactive refresh, the call ends
\* with NotAuthorized (not the refresh error), the operation is never
\* invoked and the store is as it was when the call started.
C3_ProactiveFailureIsNotAuthorized ==
  \A j \in PhaseIdx("token", "proactive") :
    log[j].response = Null
    => /\ pc = "done"
       /\ result = [kind |-> "error", err |-> NotAuthorized]
       /\ FnIdx = {}
       /\ Len(log) = j
       /\ store = log[1].store

C3_Witness ==
  /\ pc = "done"
  /\ \E j \in PhaseIdx("token", "proactive") : log[j].response = Null

\* C4: for a loaded record whose expiresAt is more than 5 minutes in the
\* future, the operation is invoked right after the load, with the stored
\* access token and without a refresh call; unless that invocation fails
\* with an authorization marker, the whole call makes no refresh call.
C4_FarExpiryNoRefresh ==
  (Started /\ Loaded # Null /\ Loaded.expiresAt > LoadedAt + 300000)
  => /\ Len(log) = 1 => pc = "fn"
     /\ Len(log) >= 2 => /\ log[2].ev = "fn"
                         /\ log[2].attempt = 1
                         /\ log[2].token = Loaded.accessToken
     /\ PhaseIdx("token", "proactive") = {}
     /\ (Len(log) >= 2 /\ ~(log[2].failed /\ Marked(variant, log[2].message)))
          => TokenIdx = {} /\ store = log[1].store

C4_Witness ==
  /\ Started /\ Loaded # Null /\ Loaded.expiresAt > LoadedAt + 300000
  /\ pc = "done" /\ result = [kind |-> "ok", value |-> Loaded.accessToken]
  /\ TokenIdx = {}

\* the reload of the reactive path, when the call has made one
Reloads == {i \in Idx("load") : i > 1}

ReactiveTokens == PhaseIdx("token", "reactive")

Retries == {i \in FnIdx : log[i].attempt = 2}

\* C5 as stated: for a loaded record with expiresAt == 0 or expiresAt within
\* 5 minutes of now, when the operation fails with a 401-shaped error the
\* call makes exactly one refresh call and exactly one retry, and the retry
\* receives the newly issued access token.
C5_Original ==
  (/\ pc = "done"
   /\ Loaded # Null
   /\ Loaded.expiresAt = 0 \/ NearExpiryLoaded
   /\ FirstFnFailed /\ Includes(log[FirstFn].message, M401))
  => /\ Cardinality(TokenIdx) = 1
     /\ Cardinality(Retries) = 1
     /\ \A i \in Retries : \E j \in TokenIdx :
          log[j].response # Null /\ log[i].token = log[j].response.access_token

\* C5 amended: when the first invocation fails with a 401-shaped error and
\* the reloaded record has a refresh token, the call makes exactly one
\* reactive refresh call, which is its only refresh call when the loaded
\* record had expiresAt == 0 (a near-expiry record with a refresh token has
\* been refreshed proactively before, which makes two); exactly one retry
\* follows when the token endpoint accepts that refresh and the write of the
\* new record does not raise (the Redis copies raise a failed write, the
\* copies of api/mcp.ts do not), it receives the newly issued access token,
\* and there is no retry otherwise.
C5_OneReactiveRefreshOneRetry ==
  (/\ pc = "done"
   /\ FirstFnFailed /\ Includes(log[FirstFn].message, M401)
   /\ \E i \in Reloads : log[i].rec # Null /\ Truthy(log[i].rec.refreshToken))
  => /\ Cardinality(ReactiveTokens) = 1
     /\ Loaded.expiresAt = 0 => Cardinality(TokenIdx) = 1
     /\ Cardinality(TokenIdx) =
          IF NearExpiryLoaded /\ Truthy(Loaded.refreshToken) THEN 2 ELSE 1
     /\ \A j \in ReactiveTokens :
          /\ j > FirstFn
          /\ Cardinality(Retries) =
               IF /\ log[j].response # Null
                  /\ log[j + 1].ok \/ variant \in {"blob", "kv"}
               THEN 1 ELSE 0
          /\ \A i \in Retries :
               /\ i > j
               /\ log[i].token = log[j].response.access_token
               /\ log[i].token # log[FirstFn].token

C5_Witness ==
  /\ pc = "done" /\ Loaded # Null /\ Loaded.expiresAt = 0
  /\ FirstFnFailed /\ Includes(log[FirstFn].message, M401)
  /\ Cardinality(TokenIdx) = 1 /\ Cardinality(Retries) = 1
  /\ result.kind = "ok"
  /\ \E j \in ReactiveTokens : result.value = log[j].response.access_token

\* C6: within one call the operation is invoked at most twice and the
\* reactive refresh is attempted at most once; when the retried operation
\* fails, whatever its message, the call ends with exactly that failure and
\* nothing happens after it.
C6_AtMostOneRetry ==
  /\ Cardinality(FnIdx) <= 2
  /\ Cardinality(ReactiveTokens) <= 1
  /\ \A i \in Retries :
       /\ i = Len(log)
       /\ pc = "done"
       /\ log[i].failed =>
            result = [kind |-> "error",
                      err |-> [name |-> "UpstreamRequestFailed", attempt |-> 2,
                               message |-> log[i].message]]

C6_Witness ==
  /\ pc = "done"
  /\ \E i \in Retries : log[i].failed /\ Marked(variant, log[i].message)
  /\ result.kind = "error" /\ result.err.attempt = 2

\* a first-attempt failure has sent the call down the reactive path
Triggered == pc = "reactiveGetTokens" \/ Len(log) > FirstFn

\* C7 as stated: in every wrapper a first-attempt failure whose message
\* contains '401', 'invalid', 'expired' or 'unauthorized' triggers the
\* reactive path; '404' triggers it for WHOOP and not for Withings.
C7_Original ==
  FirstFnFailed
  => LET m == log[FirstFn].message IN
       /\ (\/ Includes(m, M401) \/ Includes(m, Minvalid) \/ Includes(m, Mexpired)
           \/ Includes(m, MUnauthorized) \/ Includes(m, Munauthorized))
          => Triggered
       /\ (/\ Includes(m, M404)
           /\ ~(\/ Includes(m, M401) \/ Includes(m, Minvalid) \/ Includes(m, Mexpired)
                \/ Includes(m, MUnauthorized) \/ Includes(m, Munauthorized)))
          => (Triggered <=> variant = "whoop")

\* C7 amended: in every wrapper a first-attempt failure whose message
\* contains '401', 'invalid' or 'expired' triggers the reactive path (reload
\* of the stored tokens, then refresh and retry when they carry a refresh
\* token); '404' and 'Unauthorized' (capital U, matched case-sensitively)
\* trigger it for WHOOP only and are ordinary failures for Withings, and a
\* message with none of a wrapper's markers never triggers it.
C7_MarkersPerProvider ==
  FirstFnFailed
  => LET m == log[FirstFn].message IN
       /\ Triggered <=>
            \/ Includes(m, M401) \/ Includes(m, Minvalid) \/ Includes(m, Mexpired)
            \/ variant = "whoop" /\ (Includes(m, M404) \/ Includes(m, MUnauthorized))
       /\ Len(log) > FirstFn => log[FirstFn + 1].ev = "load"
       /\ (Len(log) > FirstFn + 1) =>
            /\ log[FirstFn + 1].rec # Null
            /\ Truthy(log[FirstFn + 1].rec.refreshToken)
            /\ log[FirstFn + 2].ev = "token"

C7_Witness ==
  /\ pc = "done" /\ variant = "whoop" /\ Cardinality(Retries) = 1
  /\ Includes(log[FirstFn].message, M404)

\* C8: when the first invocation fails with a message that carries none of
\* the wrapper's authorization markers, the call ends with exactly that
\* failure: nothing follows the invocation (no token-endpoint call, no
\* second invocation) and the store is as it was when the operation ran.
C8_OtherFailuresPropagate ==
  (FirstFnFailed /\ ~Marked(variant, log[FirstFn].message))
  => /\ pc = "done"
     /\ result = [kind |-> "error",
                  err |-> [name |-> "UpstreamRequestFailed", attempt |-> 1,
                           message |-> log[FirstFn].message]]
     /\ FirstFn = Len(log)
     /\ ReactiveTokens = {} /\ Retries = {}
     /\ store = log[FirstFn].store

C8_Witness ==
  /\ pc = "done" /\ variant = "withings" /\ FirstFnFailed
  /\ Includes(log[FirstFn].message, M404)
  /\ result.kind = "error" /\ result.err.attempt = 1

\* C9 as stated: whenever the retried operation runs, the store already
\* holds the newly issued record.
C9_Original ==
  \A i \in Retries :
    /\ log[i].store[StoreKey(variant)] # Null
    /\ log[i].store[StoreKey(variant)].accessToken = log[i].token

\* C9 amended: on the reactive path the steps are, in this order, reload of
\* the stored tokens, token-endpoint call, write of the new record, retry:
\* whenever the retried operation runs, the write has been attempted and the
\* store holds the newly issued record unless that write failed, which only
\* the copies of api/mcp.ts let pass (the Redis copies raise it instead of
\* retrying); a failure of the retry does not roll the store back.
C9_ReactiveOrder ==
  \A i \in Retries :
    /\ i >= 5
    /\ log[i - 3].ev = "load"
    /\ log[i - 2].ev = "token" /\ log[i - 2].phase = "reactive"
    /\ log[i - 2].response # Null
    /\ log[i - 2].presented = log[i - 3].rec.refreshToken
    /\ log[i - 1].ev = "save" /\ log[i - 1].phase = "reactive"
    /\ log[i - 1].rec.accessToken = log[i - 2].response.access_token
    /\ log[i - 1].rec.refreshToken = log[i - 2].response.refresh_token
    /\ log[i].token = log[i - 2].response.access_token
    /\ log[i - 1].ok \/ variant \in {"blob", "kv"}
    /\ log[i - 1].ok => log[i].store[StoreKey(variant)] = log[i - 1].rec
    /\ store = log[i - 1].store

C9_Witness ==
  /\ pc = "done" /\ variant = "whoop"
  /\ \E i \in Retries :
       /\ log[i].failed
       /\ store["redis:whoop_tokens"] = log[i - 1].rec
       /\ store # log[1].store

\* C10: when the token endpoint rejects the reactive refresh, the call ends
\* with that refresh error (not NotAuthorized, not the operation's error),
\* the operation is not invoked again and the store is as it was when the
\* operation failed.
C10_ReactiveFailurePropagates ==
  \A j \in ReactiveTokens :
    log[j].response = Null
    => /\ pc = "done"
       /\ result = [kind |-> "error", err |-> RefreshFailed]
       /\ j = Len(log)
       /\ Retries = {}
       /\ store = log[FirstFn].store

C10_Witness ==
  /\ pc = "done" /\ variant = "whoop"
  /\ \E j \in ReactiveTokens : log[j].response = Null
  /\ result.kind = "error" /\ result.err.name = "RefreshFailed"

\* C11: a loaded record with expiresAt == 0 is never refreshed proactively:
\* the operation is invoked right after the load, and every token-endpoint
\* call of the call comes after an invocation of the operation that failed
\* with one of the wrapper's authorization markers.
C11_SentinelNeverProactive ==
  (Started /\ Loaded # Null /\ Loaded.expiresAt = 0)
  => /\ PhaseIdx("token", "proactive") = {}
     /\ Len(log) = 1 => pc = "fn"
     /\ Len(log) >= 2 => log[2].ev = "fn" /\ log[2].token = Loaded.accessToken
     /\ \A j \in TokenIdx :
          \E i \in FnIdx :
            i < j /\ log[i].failed /\ Marked(variant, log[i].message)

C11_Witness ==
  /\ pc = "done" /\ variant = "kv"
  /\ ~log[1].ok /\ Loaded # Null /\ Loaded.expiresAt = 0
  /\ Cardinality(TokenIdx) = 1 /\ result.kind = "ok"

\* C12: every load returns the durable store's record when the read
\* succeeds and a record is present; when the read fails or finds nothing it
\* returns the statically configured access/refresh pair as a record with
\* expiresAt = 0, and null when that pair is not configured either.  A load
\* raises nothing: a first load that yields null ends the call, and a call
\* that ends right after its first load ends with NotAuthorized, never with
\* the store's read failure.
C12_LoadStoreThenStaticThenNull ==
  /\ \A i \in Idx("load") :
       LET held == log[i].store[StoreKey(variant)] IN
         log[i].rec =
           IF log[i].ok /\ held # Null THEN held
           ELSE IF env[Provider(variant)]
                THEN [accessToken |-> <<"env_at", 0>>,
                      refreshToken |-> <<"env_rt", 0>>, expiresAt |-> 0]
                ELSE Null
  /\ (Len(log) = 1 /\ log[1].rec = Null) => pc = "done"
  /\ (Len(log) = 1 /\ pc = "done")
       => result = [kind |-> "error", err |-> NotAuthorized]

C12_Witness ==
  /\ pc = "done" /\ variant = "whoop" /\ env["whoop"]
  /\ ~log[1].ok /\ log[1].store["redis:whoop_tokens"] # Null
  /\ log[1].rec.expiresAt = 0 /\ log[1].rec # log[1].store["redis:whoop_tokens"]
  /\ \E i \in Reloads : log[i].ok /\ log[i].rec = log[i].store["redis:whoop_tokens"]

\* C13: when the write of a freshly refreshed record fails, in the proactive
\* or in the reactive refresh, the failure does not end the call: the next
\* step is an invocation of the operation with the newly issued access
\* token, and the call never ends with the store's write failure or with
\* NotAuthorized in its place.
C13_SaveFailureNotRaised ==
  \A s \in Idx("save") :
    (~log[s].ok /\ pc = "done")
    => /\ Len(log) > s
       /\ log[s + 1].ev = "fn"
       /\ log[s + 1].token = log[s].rec.accessToken
       /\ Len(log) = s + 1 =>
            result = IF log[s + 1].failed
                     THEN [kind |-> "error",
                           err |-> [name |-> "UpstreamRequestFailed",
                                    attempt |-> log[s + 1].attempt,
                                    message |-> log[s + 1].message]]
                     ELSE [kind |-> "ok", value |-> log[s + 1].token]

\* a step that changes the record under key k writes the pair of an accepted
\* refresh: the wrapper's saveTokens, or a refresh tool / keepalive request
Overwritten(k) ==
  IF pc \in {"proactiveSave", "reactiveSave"}
  THEN /\ k = StoreKey(variant)
       /\ newTokens.access_token = <<"at", issued>>
       /\ store'[k] = [accessToken |-> newTokens.access_token,
                       refreshToken |-> newTokens.refresh_token,
                       expiresAt |-> now + newTokens.expires_in * 1000]
  ELSE /\ pc = "idle"
       /\ \E m \in (issued + 1)..issued', secs \in ExpiresIn :
            store'[k] = [accessToken |-> <<"at", m>>, refreshToken |-> <<"rt", m>>,
                         expiresAt |-> now + secs * 1000]

\* C14: a record in the durable store is never deleted or emptied; the
\* store changes only by a refresh (proactive, reactive, refresh tool,
\* keepalive) whose token-endpoint call was accepted, and then the
\* provider's record becomes exactly the newly issued access token, the
\* newly issued refresh token and expiresAt = the clock at the write +
\* expires_in * 1000; every such refresh whose write goes through leaves
\* that record in the store.
C14_RecordOnlyOverwritten ==
  /\ [][\A k \in StoreKeys :
          /\ store[k] # Null => store'[k] # Null
          /\ store'[k] # store[k] => Overwritten(k)]_vars
  /\ [](\A s \in Idx("save") :
          log[s].ok =>
            /\ log[s].store[StoreKey(variant)].accessToken = log[s - 1].response.access_token
            /\ log[s].store[StoreKey(variant)].refreshToken = log[s - 1].response.refresh_token)
  /\ []((pc = "idle" /\ result # Null /\ result.kind = "response"
         /\ result.status = 200 /\ result.results[2] = "refreshed")
        => store["redis:whoop_tokens"].accessToken = <<"at", issued>>)

C14_Witness ==
  /\ pc = "idle" /\ result # Null /\ result.kind = "response"
  /\ result.results = <<"refreshed", "refreshed">>
  /\ store["redis:withings_tokens"].accessToken = <<"at", issued - 1>>
  /\ store["redis:whoop_tokens"].refreshToken = <<"rt", issued>>
  /\ store["kv:withings_tokens"].accessToken = <<"at", 0>>

\* C15 as stated: once a provider's authorization-code exchange has been
\* accepted, the provider's record exists in the token store, and a
\* following data tool call does not end with NotAuthorized.
C15_Original ==
  /\ \A p \in granted : store[StoreKey(p)] # Null
  /\ (pc = "done" /\ variant \in granted)
       => result # [kind |-> "error", err |-> NotAuthorized]

\* C15 amended: an accepted authorization-code exchange returns the issued
\* token pair to the user and writes nothing to the token store; a following
\* data tool call of that provider loads what the store or the static
\* configuration held before, and ends with NotAuthorized when neither held
\* tokens.
C15_ExchangeLeavesStore ==
  /\ [][granted' # granted =>
          /\ store' = store
          /\ result' = [kind |-> "ok",
                        value |-> [access_token |-> <<"at", issued'>>,
                                   refresh_token |-> <<"rt", issued'>>,
                                   expires_in |-> result'.value.expires_in]]]_vars
  /\ []((Started /\ variant \in granted
         /\ log[1].store[StoreKey(variant)] = Null /\ ~env[variant])
        => /\ pc = "done"
           /\ result = [kind |-> "error", err |-> NotAuthorized])

C15_Witness ==
  /\ pc = "done" /\ variant = "whoop" /\ "whoop" \in granted
  /\ log[1].ok /\ store["redis:whoop_tokens"] = Null
  /\ result = [kind |-> "error", err |-> NotAuthorized]

(* ------------------------- the WHOOP normalizer ------------------------ *)

\* number of cycles or workouts in a provider response
MaxCycles == 2

\* number of recoveries in a provider response
MaxRecoveries == 2

\* decimal numbers are integers counting thousandths
Scale == 1000

\* Math.round(n / d) for d > 0: floor(n / d + 1/2), the nearest integer, a
\* tie going up
Round(n, d) == (n + d \div 2) \div d

\* mutant: the fraction is cut off
kilojouleToCalories_Truncates(kj) == (kj * 239) \div (Scale * 1000)

\* mutant: 0.24 for 0.239
kilojouleToCalories_Coarse(kj) == Round(kj * 240, Scale * 1000)

\* Math.round(kj * 0.239), kj in thousandths of a kilojoule
kilojouleToCalories(kj) == Round(kj * 239, Scale * 1000)

\* Math.round(x * 10) / 10, x in thousandths, the result in tenths
roundTenth(x) == Round(x * 10, Scale)

ScoreStates == {"SCORED", "PENDING_SCORE", "UNSCORABLE"}

\* the score of the i-th cycle or workout when it carries one; the first is
\* strain 10.04 and 500 kJ
cycleScore(i) ==
  [strain |-> 10040 + (i - 1) * 2515, kilojoule |-> 500000 + (i - 1) * 1234567,
   average_heart_rate |-> 60 + i, max_heart_rate |-> 150 + i]

\* the score of a recovery of cycle c when it carries one; for cycle 1 it is
\* recovery 80, resting heart rate 55, hrv 42.3
recoveryScore(c) ==
  [recovery_score |-> 79 + c, resting_heart_rate |-> 54 + c,
   hrv_rmssd_milli |-> 42300 + (c - 1) * 1456]

\* what a record's score_state and score can be: the state, and whether the
\* optional score is there
Scorings ==
  {[state |-> st, scored |-> b] : st \in ScoreStates, b \in BOOLEAN}
    \ {[state |-> "UNSCORABLE", scored |-> TRUE]}

\* the responses of GET /v2/cycle: the i-th cycle has id i and starts on day i
CycleLists ==
  UNION {{[i \in 1..n |->
             [id |-> i, start |-> i, score_state |-> f[i].state,
              score |-> IF f[i].scored THEN cycleScore(i) ELSE Null]] :
            f \in [1..n -> Scorings]} : n \in 0..MaxCycles}

\* the responses of GET /v2/recovery
RecoveryLists ==
  UNION {{[j \in 1..n |->
             [cycle_id |-> f[j].c, score_state |-> f[j].s.state,
              score |-> IF f[j].s.scored THEN recoveryScore(f[j].c) ELSE Null]] :
            f \in [1..n -> [c : 1..MaxCycles, s : Scorings]]} : n \in 0..MaxRecoveries}

\* the score of the i-th workout when it carries one: the fields of a cycle's
\* score, and for the first workout a distance of 5000.4 m (0 where the
\* optional field is not there: both are falsy)
workoutScore(i) ==
  [strain |-> cycleScore(i).strain, kilojoule |-> cycleScore(i).kilojoule,
   average_heart_rate |-> cycleScore(i).average_heart_rate,
   max_heart_rate |-> cycleScore(i).max_heart_rate,
   distance_meter |-> IF i = 1 THEN 5000400 ELSE 0]

\* end - start of a workout in milliseconds: 90 minutes, 90 minutes and
\* 29.999 seconds, 90 minutes and 30 seconds
WorkoutSpans == {5400000, 5429999, 5430000}

\* the responses of GET /v2/activity/workout; start and end are the
\* timestamps that new Date(...).getTime() reads from the record
WorkoutLists ==
  UNION {{[i \in 1..n |->
             [id |-> i, start |-> i, end |-> i + f[i].span,
              sport_name |-> "running",
              score_state |-> f[i].s.state,
              score |-> IF f[i].s.scored THEN workoutScore(i) ELSE Null]] :
            f \in [1..n -> [s : Scorings, span : WorkoutSpans]]} : n \in 0..MaxCycles}

\* mutant: the score alone decides
isScored_AnyWithScore(r) == r.score # Null

\* x.score_state === "SCORED" && x.score
isScored(r) == r.score_state = "SCORED" /\ r.score # Null

\* mutant: the first recovery of the response, whatever its cycle
recoveryMapGet_First(recoveries, id) ==
  IF recoveries = << >> THEN Null ELSE recoveries[1]

\* recoveryMap.get(id) after the loop of recoveryMap.set(recovery.cycle_id,
\* recovery): the last recovery of that cycle, undefined when there is none
recoveryMapGet(recoveries, id) ==
  LET at == {j \in DOMAIN recoveries : recoveries[j].cycle_id = id} IN
    IF at = {} THEN Null
    ELSE recoveries[CHOOSE j \in at : \A k \in at : k <= j]

\* the DailyStats entry of one cycle; recovery is Null when the field is omitted
dailyStatsOf(cycle, recoveries) ==
  LET recovery == recoveryMapGet(recoveries, cycle.id) IN
    [date |-> cycle.start,
     strain |-> roundTenth(cycle.score.strain),
     caloriesBurned |-> kilojouleToCalories(cycle.score.kilojoule),
     averageHeartRate |-> cycle.score.average_heart_rate,
     maxHeartRate |-> cycle.score.max_heart_rate,
     recovery |-> IF recovery # Null /\ isScored(recovery)
                  THEN [score |-> recovery.score.recovery_score,
                        restingHeartRate |-> recovery.score.resting_heart_rate,
                        hrv |-> roundTenth(recovery.score.hrv_rmssd_milli)]
                  ELSE Null]

\* cycles.filter(...).map(...) of getWhoopDailyStats
getWhoopDailyStats(cycles, recoveries) ==
  LET kept == SelectSeq(cycles, isScored) IN
    [i \in 1..Len(kept) |-> dailyStatsOf(kept[i], recoveries)]

\* mutant: the fraction of a minute is cut off
durationMinutes_Truncates(start, end) == (end - start) \div 60000

\* Math.round((end.getTime() - start.getTime()) / 60000)
durationMinutes(start, end) == Round(end - start, 60000)

\* the WorkoutData entry of one workout; distance is -1 when the field is
\* omitted, and whole metres otherwise
workoutDataOf(workout) ==
  [id |-> workout.id, date |-> workout.start, sport |-> workout.sport_name,
   duration |-> durationMinutes(workout.start, workout.end),
   strain |-> roundTenth(workout.score.strain),
   caloriesBurned |-> kilojouleToCalories(workout.score.kilojoule),
   averageHeartRate |-> workout.score.average_heart_rate,
   maxHeartRate |-> workout.score.max_heart_rate,
   distance |-> IF workout.score.distance_meter # 0
                THEN Round(workout.score.distance_meter, Scale)
                ELSE -1]

\* workouts.filter(...).map(...) of getWhoopWorkoutData
getWhoopWorkoutData(workouts) ==
  LET kept == SelectSeq(workouts, isScored) IN
    [i \in 1..Len(kept) |-> workoutDataOf(kept[i])]

\* the provider has answered; the normalizer has not run yet
WhoopInit ==
  /\ Quiescent
  /\ store = [k \in StoreKeys |-> Null]
  /\ env = [p \in Providers |-> FALSE]
  /\ \/ \E cs \in CycleLists, rs \in RecoveryLists :
          norm = [op |-> "getWhoopDailyStats", cycles |-> cs, recoveries |-> rs,
                  returned |-> FALSE, out |-> << >>]
     \/ \E ws \in WorkoutLists :
          norm = [op |-> "getWhoopWorkoutData", workouts |-> ws,
                  returned |-> FALSE, out |-> << >>]

normalizeDailyStats ==
  /\ norm.op = "getWhoopDailyStats" /\ ~norm.returned
  /\ norm' = [norm EXCEPT !.returned = TRUE,
                          !.out = getWhoopDailyStats(norm.cycles, norm.recoveries)]
  /\ UNCHANGED <<now, store, env, issued, calls, pc, variant, tokens, accessToken,
                 newTokens, e, result, log, granted, config, http, peer>>

normalizeWorkouts ==
  /\ norm.op = "getWhoopWorkoutData" /\ ~norm.returned
  /\ norm' = [norm EXCEPT !.returned = TRUE,
                          !.out = getWhoopWorkoutData(norm.workouts)]
  /\ UNCHANGED <<now, store, env, issued, calls, pc, variant, tokens, accessToken,
                 newTokens, e, result, log, granted, config, http, peer>>

WhoopNext == normalizeDailyStats \/ normalizeWorkouts

WhoopSpec == WhoopInit /\ [][WhoopNext]_vars

\* the daily-stats request has returned
DailyReturned == norm.op = "getWhoopDailyStats" /\ norm.returned

WorkoutsReturned == norm.op = "getWhoopWorkoutData" /\ norm.returned

\* the positions of the cycles that pass the score gate (state SCORED, score
\* carried); a cycle's start is its position in the response
ScoredCycles ==
  {c \in DOMAIN norm.cycles :
     norm.cycles[c].score_state = "SCORED" /\ norm.cycles[c].score # Null}

\* the recoveries of cycle c that are SCORED and carry a score
ScoredRecoveries(c) ==
  {j \in DOMAIN norm.recoveries :
     /\ norm.recoveries[j].cycle_id = c
     /\ norm.recoveries[j].score_state = "SCORED"
     /\ norm.recoveries[j].score # Null}

C17_OneEntryPerScoredCycle ==
  DailyReturned =>
    /\ Len(norm.out) = Cardinality(ScoredCycles)
    /\ {norm.out[i].date : i \in DOMAIN norm.out} = ScoredCycles
    /\ \A i, j \in DOMAIN norm.out : i < j => norm.out[i].date < norm.out[j].date
    /\ \A i \in DOMAIN norm.out :
         LET c == norm.cycles[norm.out[i].date].id IN
           /\ ScoredRecoveries(c) = {} => norm.out[i].recovery = Null
           /\ norm.out[i].recovery # Null =>
                \E j \in ScoredRecoveries(c) :
                  norm.out[i].recovery.score = norm.recoveries[j].score.recovery_score

C17_Witness ==
  /\ DailyReturned /\ Len(norm.out) = 2
  /\ norm.out[1].recovery = Null /\ norm.out[2].recovery # Null
  /\ Len(norm.recoveries) = 2 /\ norm.recoveries[1].cycle_id = 1
  /\ norm.recoveries[1].score # Null

\* C18: for cycles [{id 1, SCORED, score {strain 10.04, kilojoule 500}}] and
\* recoveries [{cycle_id 1, SCORED, score {recovery_score 80,
\* resting_heart_rate 55, hrv_rmssd_milli 42.3}}] the daily stats are exactly
\* one entry, with strain 10.0, caloriesBurned 120 and a nested recovery
\* object with hrv 42.3 (strain and hrv counted in tenths).
C18_Example ==
  (/\ DailyReturned
   /\ norm.cycles = <<[id |-> 1, start |-> 1, score_state |-> "SCORED",
                       score |-> [strain |-> 10040, kilojoule |-> 500000,
                                  average_heart_rate |-> 61,
                                  max_heart_rate |-> 151]]>>
   /\ norm.recoveries = <<[cycle_id |-> 1, score_state |-> "SCORED",
                           score |-> [recovery_score |-> 80,
                                      resting_heart_rate |-> 55,
                                      hrv_rmssd_milli |-> 42300]]>>)
  => norm.out = <<[date |-> 1, strain |-> 100, caloriesBurned |-> 120,
                   averageHeartRate |-> 61, maxHeartRate |-> 151,
                   recovery |-> [score |-> 80, restingHeartRate |-> 55,
                                 hrv |-> 423]]>>

C18_Witness ==
  /\ DailyReturned
  /\ Len(norm.cycles) = 1 /\ norm.cycles[1].score_state = "SCORED"
  /\ norm.cycles[1].score # Null /\ norm.cycles[1].score.kilojoule = 500000
  /\ norm.recoveries = <<[cycle_id |-> 1, score_state |-> "SCORED",
                          score |-> [recovery_score |-> 80,
                                     resting_heart_rate |-> 55,
                                     hrv_rmssd_milli |-> 42300]]>>
  /\ Len(norm.out) = 1 /\ norm.out[1].caloriesBurned = 120

(* --------------------------- energy conversion ------------------------- *)

\* number of grid points of the energy values tried
MaxKj == 60

\* distance of two grid points, in thousandths of a kilojoule
KjStep == 523

\* energy values (thousandths of a kilojoule): a grid from 0 on, the
\* neighbourhood of 500 kJ, where kj * 0.239 is a tie, and a day's worth
KjValues ==
  {i * KjStep : i \in 0..MaxKj} \cup {499999, 500000, 500001, 8288297}

\* two scores arrive, their kilojoule fields not yet converted
EnergyInit ==
  /\ Quiescent
  /\ store = [k \in StoreKeys |-> Null]
  /\ env = [p \in Providers |-> FALSE]
  /\ \E a \in KjValues, b \in KjValues :
       norm = [op |-> "kilojouleToCalories", a |-> a, b |-> b,
               returned |-> FALSE, out |-> << >>]

convertEnergy ==
  /\ norm.op = "kilojouleToCalories" /\ ~norm.returned
  /\ norm' = [norm EXCEPT !.returned = TRUE,
                          !.out = <<kilojouleToCalories(norm.a),
                                    kilojouleToCalories(norm.b)>>]
  /\ UNCHANGED <<now, store, env, issued, calls, pc, variant, tokens, accessToken,
                 newTokens, e, result, log, granted, config, http, peer>>

EnergySpec == EnergyInit /\ [][convertEnergy]_vars

\* C19: for every energy value kJ >= 0 the calories are round(kJ * 0.239):
\* the integer c with c - 1/2 <= kJ * 0.239 < c + 1/2 (a tie goes up); and
\* of two energy values the greater never yields fewer calories.
C19_RoundedAndMonotonic ==
  (norm.op = "kilojouleToCalories" /\ norm.returned) =>
    /\ \A i \in 1..2 :
         LET kj == IF i = 1 THEN norm.a ELSE norm.b
             c == norm.out[i]
         IN /\ c >= 0
            /\ 239 * kj - 1000000 * c >= -500000
            /\ 239 * kj - 1000000 * c < 500000
    /\ norm.a <= norm.b => norm.out[1] <= norm.out[2]

C19_Witness ==
  /\ norm.op = "kilojouleToCalories" /\ norm.returned
  /\ norm.a = 499999 /\ norm.b = 500000
  /\ norm.out = <<119, 120>>

(* ------------------------- the Withings normalizer --------------------- *)

\* number of measurement groups in a response
MaxGroups == 2

\* number of measures in a measurement group
MaxMeasures == 2

\* MEAS_TYPES
WEIGHT == 1

FAT_RATIO == 6

FAT_MASS == 8

MUSCLE_MASS == 76

HYDRATION == 77

BONE_MASS == 88

RECURSIVE Pow10(_)
\* Math.pow(10, n) for n >= 0
Pow10(n) == IF n = 0 THEN 1 ELSE 10 * Pow10(n - 1)

\* mutant: the unit is ignored
decode_IgnoresUnit(value, unit) == value * 100

\* the values v of the inputs whose double product v * Math.pow(10, -3) * 100
\* lies just below its decimal n.5 (145 * 0.001 * 100 is 14.499999999999998),
\* so that Math.round takes it down
BelowHalf == {145, 1025, 1035}

\* Math.round(value * Math.pow(10, unit) * 100), the decoded measure counted
\* in hundredths (the division by 100 is the position of the decimal point)
decode(value, unit) ==
  IF unit + 2 >= 0 THEN value * Pow10(unit + 2)
  ELSE IF unit = -3 /\ value \in BelowHalf THEN value \div 10
  ELSE Round(value, Pow10(-(unit + 2)))

\* mutant: a weight of 0 passes the filter
keepsWeight_NonNegative(d) == d.weight >= 0

\* .filter((d) => d.weight > 0)
keepsWeight(d) == d.weight > 0

\* the raw measures a scale reports: weight 7.00 kg as (700, -2), weight 0,
\* weight 0.145 kg as (145, -3), fat ratio 21.456 % as (21456, -3)
Measures ==
  {[type |-> WEIGHT, value |-> 700, unit |-> -2],
   [type |-> WEIGHT, value |-> 0, unit |-> 0],
   [type |-> WEIGHT, value |-> 145, unit |-> -3],
   [type |-> FAT_RATIO, value |-> 21456, unit |-> -3]}

MeasureLists == UNION {[1..n -> Measures] : n \in 0..MaxMeasures}

\* the switch on measure.type: the field the measure sets in the result
setField(data, measure) ==
  LET v == decode(measure.value, measure.unit) IN
    CASE measure.type = WEIGHT      -> [data EXCEPT !.weight = v]
      [] measure.type = FAT_RATIO   -> [data EXCEPT !.fatRatio = v]
      [] measure.type = FAT_MASS    -> [data EXCEPT !.fatMass = v]
      [] measure.type = MUSCLE_MASS -> [data EXCEPT !.muscleMass = v]
      [] measure.type = HYDRATION   -> [data EXCEPT !.hydration = v]
      [] measure.type = BONE_MASS   -> [data EXCEPT !.boneMass = v]
      [] OTHER                      -> data

RECURSIVE forMeasures(_, _, _)
\* for (const measure of group.measures) from the i-th on
forMeasures(data, measures, i) ==
  IF i > Len(measures) THEN data
  ELSE forMeasures(setField(data, measures[i]), measures, i + 1)

\* the WeightData of one group; date in milliseconds, an optional field that
\* was never set is -1
weightDataOf(group) ==
  forMeasures([weight |-> 0, date |-> group.date * 1000, fatRatio |-> -1,
               fatMass |-> -1, muscleMass |-> -1, hydration |-> -1,
               boneMass |-> -1],
              group.measures, 1)

\* measureGroups.map(...).filter((d) => d.weight > 0)
parseWeightData(measureGroups) ==
  SelectSeq([i \in DOMAIN measureGroups |-> weightDataOf(measureGroups[i])],
            keepsWeight)

\* the provider has answered; parseWeightData has not run yet
WeightInit ==
  /\ Quiescent
  /\ store = [k \in StoreKeys |-> Null]
  /\ env = [p \in Providers |-> FALSE]
  /\ \E n \in 0..MaxGroups :
       \E f \in [1..n -> MeasureLists] :
         \* the measuregrps of the response: the i-th group is dated i
         \* (epoch seconds)
         norm = [op |-> "parseWeightData",
                 measureGroups |-> [i \in 1..n |-> [date |-> i, measures |-> f[i]]],
                 returned |-> FALSE, out |-> << >>]

normalizeWeight ==
  /\ norm.op = "parseWeightData" /\ ~norm.returned
  /\ norm' = [norm EXCEPT !.returned = TRUE,
                          !.out = parseWeightData(norm.measureGroups)]
  /\ UNCHANGED <<now, store, env, issued, calls, pc, variant, tokens, accessToken,
                 newTokens, e, result, log, granted, config, http, peer>>

WeightSpec == WeightInit /\ [][normalizeWeight]_vars

\* parseWeightData has returned
WeightReturned == norm.op = "parseWeightData" /\ norm.returned

RECURSIVE lastOfType(_, _, _)
\* the position of the last measure of the type among the first i, 0 if none
lastOfType(measures, type, i) ==
  IF i = 0 THEN 0
  ELSE IF measures[i].type = type THEN i
  ELSE lastOfType(measures, type, i - 1)

\* value * 10^unit counted in thousandths, for units from -3 up
thousandths(measure) == measure.value * Pow10(measure.unit + 3)

\* h hundredths is a two-decimal value nearest to the measure
nearestHundredths(h, measure) ==
  /\ 10 * h - thousandths(measure) <= 5
  /\ thousandths(measure) - 10 * h <= 5

\* C20: parseWeightData decodes a measure (value, unit) as value * 10^unit
\* rounded to two decimals, so that (700, -2) gives the weight 7.00; every
\* record of the output has a weight above 0; a group whose weight decodes to
\* 0, or that has no weight measure, is absent from the output with all its
\* other fields, and every other group is there, in the order of the input,
\* with its fat ratio.
C20_DecodedAndFiltered ==
  WeightReturned =>
    /\ \A j \in DOMAIN norm.out : norm.out[j].weight > 0
    /\ \A j, k \in DOMAIN norm.out :
         j < k => norm.out[j].date < norm.out[k].date
    /\ \A i \in DOMAIN norm.measureGroups :
         LET ms == norm.measureGroups[i].measures
             w  == lastOfType(ms, WEIGHT, Len(ms))
             f  == lastOfType(ms, FAT_RATIO, Len(ms))
             at == {j \in DOMAIN norm.out : norm.out[j].date = 1000 * i}
         IN  IF w = 0 \/ thousandths(ms[IF w = 0 THEN 1 ELSE w]) < 5
             THEN at = {}
             ELSE /\ Cardinality(at) = 1
                  /\ \A j \in at :
                       /\ nearestHundredths(norm.out[j].weight, ms[w])
                       /\ (ms[w].value = 700 /\ ms[w].unit = -2)
                            => norm.out[j].weight = 700
                       /\ f # 0 => nearestHundredths(norm.out[j].fatRatio, ms[f])
                       /\ f = 0 => norm.out[j].fatRatio = -1

\* the first group weighs (700, -2) and comes out as 7.00; the second has a
\* fat ratio and a weight of 0 and is dropped
C20_Witness ==
  /\ WeightReturned
  /\ Len(norm.measureGroups) = 2
  /\ norm.measureGroups[1].measures =
       <<[type |-> WEIGHT, value |-> 700, unit |-> -2]>>
  /\ norm.measureGroups[2].measures =
       <<[type |-> FAT_RATIO, value |-> 21456, unit |-> -3],
         [type |-> WEIGHT, value |-> 0, unit |-> 0]>>
  /\ Len(norm.out) = 1
  /\ norm.out[1].weight = 700 /\ norm.out[1].date = 1000

(* ------------------------- workout summaries --------------------------- *)

\* C21 as worded: the duration is the integer quotient of end - start by
\* 60000.
C21_Original ==
  WorkoutsReturned =>
    \A i \in DOMAIN norm.out :
      LET w == norm.workouts[norm.out[i].id] IN
        norm.out[i].duration = (w.end - w.start) \div 60000

\* C21: for every scored workout the duration is end - start in
\* milliseconds divided by 60000 and rounded to the nearest whole minute, a
\* half minute going up; a workout whose start and end are 90 minutes apart
\* has duration 90.
C21_DurationRoundedToNearestMinute ==
  WorkoutsReturned =>
    /\ Len(norm.out) =
         Cardinality({w \in DOMAIN norm.workouts :
                        /\ norm.workouts[w].score_state = "SCORED"
                        /\ norm.workouts[w].score # Null})
    /\ \A i \in DOMAIN norm.out :
         LET w == norm.workouts[norm.out[i].id]
             diff == w.end - w.start
         IN  /\ 60000 * norm.out[i].duration - diff <= 30000
             /\ diff - 60000 * norm.out[i].duration < 30000
             /\ diff = 90 * 60000 => norm.out[i].duration = 90

\* one workout of 90 minutes and one of 90 minutes and 30 seconds
C21_Witness ==
  /\ WorkoutsReturned /\ Len(norm.out) = 2
  /\ norm.workouts[1].end - norm.workouts[1].start = 5400000
  /\ norm.workouts[2].end - norm.workouts[2].start = 5430000
  /\ norm.out[1].duration = 90 /\ norm.out[2].duration = 91

(* --------------------------- the HTTP handler -------------------------- *)

\* the endpoint a copy is served at; the two providers of
\* api/mcp/[withingsKey]/[whoopKey] share one handler
endpoint(v) == IF v \in Providers THEN "health" ELSE v

\* the value a configured path secret has
Secret == "s3cret"

\* the key segments a request path can carry; "" is a missing segment
PathKeys == {Secret, "wrong", ""}

\* mutant: only the first key segment is compared
keyRejected_FirstKeyOnly(v, cfg, path) ==
  /\ endpoint(v) \in {"key", "health"}
  /\ cfg.secret["withings"] # ""
  /\ path["withings"] # cfg.secret["withings"]

\* the shared-secret check of the handler: api/mcp.ts has none,
\* api/mcp/[key].ts compares the last segment with MCP_SECRET_KEY (kept in
\* cfg.secret["withings"]), part_002 compares segment 2 with
\* WITHINGS_MCP_SECRET_KEY and segment 3 with WHOOP_MCP_SECRET_KEY; an unset
\* secret compares nothing
keyRejected(v, cfg, path) ==
  CASE endpoint(v) = "key" ->
         cfg.secret["withings"] # "" /\ path["withings"] # cfg.secret["withings"]
    [] endpoint(v) = "health" ->
         \/ cfg.secret["withings"] # "" /\ path["withings"] # cfg.secret["withings"]
         \/ cfg.secret["whoop"] # "" /\ path["whoop"] # cfg.secret["whoop"]
    [] OTHER -> FALSE

\* the tools a tools/call request can name: a data tool, the manual refresh,
\* the authorization URL, and a name no case of the switch matches
Tools == {"get_weight", "refresh_token", "get_auth_url", "no_such_tool"}

\* the body of a request that has none
NoBody == [json |-> FALSE, method |-> "", params |-> FALSE, tool |-> ""]

\* the bodies of POST requests: one that req.json() cannot parse, the RPC
\* methods without params (among them one the switch does not know), and
\* tools/call with params
RpcBodies ==
  {NoBody}
    \cup {[json |-> TRUE, method |-> m, params |-> FALSE, tool |-> ""] :
            m \in {"initialize", "tools/list", "tools/call", "ping"}}
    \cup {[json |-> TRUE, method |-> "tools/call", params |-> TRUE, tool |-> t] :
            t \in Tools}

\* the paths a request to the endpoint of copy v can have
Paths(v) ==
  CASE endpoint(v) = "key" ->
         {[withings |-> k, whoop |-> ""] : k \in PathKeys}
    [] endpoint(v) = "health" ->
         {[withings |-> k, whoop |-> h] : k \in PathKeys, h \in PathKeys}
    [] OTHER -> {[withings |-> "", whoop |-> ""]}

\* the requests the endpoint of copy v can receive; the id of a request is a
\* one-element tuple, the empty tuple being the id null
Requests(v) ==
  {[variant |-> v, method |-> m, path |-> p, body |-> NoBody, id |-> <<7>>] :
     m \in {"OPTIONS", "GET", "DELETE"}, p \in Paths(v)}
    \cup {[variant |-> v, method |-> "POST", path |-> p, body |-> b, id |-> <<7>>] :
            p \in Paths(v), b \in RpcBodies}

\* new Response(JSON.stringify(body), { status, headers })
Response(status, body) == [status |-> status, body |-> body]

\* String(error)
String(err) == [text |-> "Error: ", of |-> err]

\* the result of initialize and of GET
ServerInfo == [protocolVersion |-> "2024-11-05", serverInfo |-> "mcp"]

\* { content: [{ type: "text", text: toolResult }] }
Content(toolResult) == [content |-> <<[type |-> "text", text |-> toolResult]>>]

\* mutant: the failure is answered with a result
Failure_AsResult(err) ==
  Response(200, [jsonrpc |-> "2.0", result |-> Content(String(err)), id |-> << >>])

\* the catch block of the handler
Failure(err) ==
  Response(500, [jsonrpc |-> "2.0",
                 error |-> [code |-> -32603, message |-> String(err)],
                 id |-> << >>])

\* the return after the switch
Success(res, id) == Response(200, [jsonrpc |-> "2.0", result |-> res, id |-> id])

\* the default case of the switch on method
MethodNotFound(id) ==
  Response(200, [jsonrpc |-> "2.0",
                 error |-> [code |-> -32601, message |-> "Method not found"],
                 id |-> id])

SyntaxError == [name |-> "SyntaxError", attempt |-> 0, message |-> Empty]

TypeError == [name |-> "TypeError", attempt |-> 0, message |-> Empty]

\* the try block of the handler up to the tool; Null when the request goes on
\* to a tool that awaits the store or a provider
rpc(req) ==
  IF ~req.body.json THEN Failure(SyntaxError)
  ELSE CASE req.body.method = "initialize" -> Success(ServerInfo, req.id)
         [] req.body.method = "tools/list" -> Success([tools |-> "TOOLS"], req.id)
         [] req.body.method = "tools/call" ->
              IF ~req.body.params THEN Failure(TypeError)
              ELSE CASE req.body.tool = "get_auth_url" ->
                          Success(Content("authorization url"), req.id)
                     [] req.body.tool \in {"get_weight", "refresh_token"} -> Null
                     [] OTHER -> Success(Content("Unknown tool"), req.id)
         [] OTHER -> MethodNotFound(req.id)

\* the handler down to the tool call
handlerResponse(cfg, req) ==
  IF req.method = "OPTIONS" THEN Response(200, Null)
  ELSE IF keyRejected(req.variant, cfg, req.path)
  THEN Response(401, [error |-> "Unauthorized"])
  ELSE IF req.method = "GET"
  THEN Response(200, [jsonrpc |-> "2.0", result |-> ServerInfo])
  ELSE IF req.method # "POST"
  THEN Response(405, [error |-> "Method not allowed"])
  ELSE rpc(req)

\* what the handler answers once the tool has returned or thrown
Envelope(res, id) ==
  IF res.kind = "error" THEN Failure(res.err) ELSE Success(Content(res.value), id)

\* a deployment: any record in the store, static tokens or none, the client
\* credentials of both providers set or unset, each path secret set or unset
HttpInit ==
  /\ now = T0
  /\ norm = Null
  /\ peer = NoPeer
  /\ http = NoRequest
  /\ \E c \in BOOLEAN, w \in {"", Secret}, h \in {"", Secret} :
       config = [credentials |-> [p \in Providers |-> c],
                 secret |-> [withings |-> w, whoop |-> h]]
  /\ \E r \in InitRecords \cup {Null} : store = [k \in StoreKeys |-> r]
  /\ \E configured \in BOOLEAN : env = [p \in Providers |-> configured]
  /\ issued = 0
  /\ calls = 0
  /\ pc = "idle"
  /\ variant = "none"
  /\ tokens = Null
  /\ accessToken = Null
  /\ newTokens = Null
  /\ e = Null
  /\ result = Null
  /\ log = << >>
  /\ granted = {}

\* the handler receives a request and runs up to its first await of a tool
handler ==
  /\ http.stage = "idle"
  /\ pc = "idle"
  /\ \E v \in Variants :
       \E req \in Requests(v) :
         LET r == handlerResponse(config, req) IN
           http' = IF r = Null
                   THEN [stage |-> "dispatch", request |-> req, response |-> Null]
                   ELSE [stage |-> "responded", request |-> req, response |-> r]
  /\ UNCHANGED <<now, store, env, issued, calls, pc, variant, tokens, accessToken,
                 newTokens, e, result, log, granted, norm, config, peer>>

\* await handleToolCall(params.name, ...): the data tool enters the wrapper
toolCallData ==
  /\ http.stage = "dispatch"
  /\ http.request.body.tool = "get_weight"
  /\ result = Null
  /\ callWithAutoRefresh(http.request.variant)

\* await handleToolCall(params.name, ...): the manual refresh
toolCallRefresh ==
  /\ http.stage = "dispatch"
  /\ http.request.body.tool = "refresh_token"
  /\ result = Null
  /\ refreshTool(http.request.variant)

\* the tool has returned or thrown: the result envelope or the catch block
respond ==
  /\ http.stage = "dispatch"
  /\ result # Null
  /\ pc \in {"idle", "done"}
  /\ pc' = "idle"
  /\ http' = [http EXCEPT !.stage = "responded",
                          !.response = Envelope(result, http.request.id)]
  /\ UNCHANGED <<now, store, env, issued, calls, variant, tokens, accessToken,
                 newTokens, e, result, log, granted, norm, config, peer>>

HttpNext ==
  \/ handler
  \/ toolCallData
  \/ toolCallRefresh
  \/ respond
  \/ Tick
  \/ ensureValidToken
  \/ proactiveRefresh
  \/ proactiveSave
  \/ fn
  \/ reactiveGetTokens
  \/ reactiveRefresh
  \/ reactiveSave
  \/ retry

HttpSpec == HttpInit /\ [][HttpNext]_vars

\* the handler has answered the request
Responded == http.stage = "responded"

\* the JSON body of the response has the member
HasMember(name) ==
  /\ http.response.body # Null
  /\ name \in DOMAIN http.response.body

\* the response is a JSON-RPC error envelope with the numeric code
ErrorEnvelope(code) ==
  /\ HasMember("jsonrpc") /\ HasMember("error") /\ ~HasMember("result")
  /\ http.response.body.error.code = code
  /\ "message" \in DOMAIN http.response.body.error

\* the tool the request went to has thrown
ToolThrew == result # Null /\ result.kind = "error"

\* C22: for every POST request to an HTTP tool endpoint that passes the path
\* check, a failure thrown while handling it (by the tool: NotAuthorized, an
\* upstream failure, a refresh failure, a failed store write; by the handler:
\* a body that does not parse, a tools/call without params) is answered with
\* HTTP 500 and an error envelope of code -32603 whose message is the
\* failure's text; an unknown RPC method is answered with an error envelope
\* of code -32601; a tool that returned is answered with a result; and no
\* response of any request carries both a result and an error.
C22_FailuresBecomeErrorEnvelopes ==
  Responded =>
    /\ ~(HasMember("result") /\ HasMember("error"))
    /\ (http.request.method = "POST" /\ http.response.status # 401) =>
         /\ ToolThrew =>
              /\ http.response.status = 500
              /\ ErrorEnvelope(-32603)
              /\ http.response.body.error.message = [text |-> "Error: ", of |-> result.err]
         /\ (~http.request.body.json
              \/ (http.request.body.method = "tools/call" /\ ~http.request.body.params))
            => http.response.status = 500 /\ ErrorEnvelope(-32603)
         /\ (http.request.body.json
              /\ http.request.body.method \notin {"initialize", "tools/list", "tools/call"})
            => ErrorEnvelope(-32601)
         /\ (result # Null /\ result.kind = "ok") =>
              /\ http.response.status = 200
              /\ HasMember("result") /\ ~HasMember("error")

\* a data tool call that found no tokens is answered with the envelope
C22_Witness ==
  /\ Responded
  /\ http.request.method = "POST" /\ http.request.body.tool = "get_weight"
  /\ result = [kind |-> "error", err |-> NotAuthorized]
  /\ http.response.status = 500
  /\ http.response.body.error.code = -32603

\* the providers whose path secret the endpoint of copy v compares
SecretsOf(v) ==
  IF v \in {"withings", "whoop"} THEN {"withings", "whoop"}
  ELSE IF v = "key" THEN {"withings"}
  ELSE {}

\* a secret is configured and the request's key segment differs from it
KeyMismatch ==
  \E p \in SecretsOf(http.request.variant) :
    config.secret[p] # "" /\ http.request.path[p] # config.secret[p]

\* C24: when a path secret is configured for an HTTP tool endpoint, every GET
\* or POST request whose key segment differs from it is answered 401, and
\* answering it dispatches no tool, reads and writes no token record and
\* calls no provider; when no secret is configured no request is answered
\* 401.
C24_PathSecretGuardsEveryRequest ==
  /\ [](http.request # Null /\ http.request.method \in {"GET", "POST"}
         => /\ KeyMismatch =>
                 /\ Responded /\ http.response.status = 401
                 /\ pc = "idle" /\ calls = 0 /\ issued = 0
                 /\ log = << >> /\ result = Null
            /\ (\A p \in SecretsOf(http.request.variant) : config.secret[p] = "")
               => (Responded => http.response.status # 401))
  /\ [][(http'.stage = "responded" /\ http'.response.status = 401)
          => UNCHANGED <<store, issued, calls, log, pc, result, tokens>>]_vars

\* a data tool call with the right Withings key and a wrong WHOOP key, on a
\* record that is about to expire
C24_Witness ==
  /\ Responded
  /\ http.request.method = "POST" /\ http.request.body.tool = "get_weight"
  /\ http.request.variant = "withings"
  /\ http.request.path = [withings |-> Secret, whoop |-> "wrong"]
  /\ config.secret = [withings |-> Secret, whoop |-> Secret]
  /\ http.response.status = 401
  /\ store["redis:withings_tokens"] # Null
  /\ store["redis:withings_tokens"].expiresAt = NearExpiry

ConfigurationMissing == [name |-> "ConfigurationMissing", attempt |-> 0, message |-> Empty]

\* C25: when the client id or client secret of a provider is not configured,
\* every tool call for that provider fails with ConfigurationMissing, before
\* the store is read and before any request goes to the provider.
C25_ConfigurationMissingIsTerminal ==
  (/\ Responded
   /\ http.request.method = "POST" /\ http.request.body.params
   /\ http.request.body.tool \in {"get_weight", "refresh_token"}
   /\ http.response.status # 401
   /\ ~config.credentials[Provider(http.request.variant)])
  => /\ ToolThrew /\ result.err = ConfigurationMissing
     /\ log = << >> /\ issued = 0

(* ------------------- the two fetches of the daily stats ---------------- *)

\* a fetch that has not been issued
Unissued == [state |-> "unissued", token |-> Null]

\* what the provider holds for the request: up to one cycle, up to one recovery
HeldCycles == {cs \in CycleLists : Len(cs) <= 1}

HeldRecoveries == {rs \in RecoveryLists : Len(rs) <= 1}

\* getWhoopDailyStats(accessToken, options) has been called
DailyFetchInit ==
  /\ Quiescent
  /\ store = [k \in StoreKeys |-> Null]
  /\ env = [p \in Providers |-> FALSE]
  /\ \E cs \in HeldCycles, rs \in HeldRecoveries :
       norm = [op |-> "getWhoopDailyStats", accessToken |-> <<"at", 1>>,
               cycles |-> cs, recoveries |-> rs,
               fetches |-> [f \in {"cycles", "recoveries"} |-> Unissued],
               settled |-> << >>, returned |-> FALSE, failed |-> FALSE,
               error |-> "", out |-> << >>]

\* the argument list of Promise.all: getWhoopCycles and getWhoopRecoveries
\* both run to their fetch before anything is awaited
issueFetches ==
  /\ norm.op = "getWhoopDailyStats"
  /\ \A f \in DOMAIN norm.fetches : norm.fetches[f].state = "unissued"
  /\ norm' = [norm EXCEPT
       !.fetches = [f \in {"cycles", "recoveries"} |->
                      [state |-> "pending", token |-> norm.accessToken]]]
  /\ UNCHANGED <<now, store, env, issued, calls, pc, variant, tokens, accessToken,
                 newTokens, e, result, log, granted, config, http, peer>>

\* fetchWhoopApi of one request completes: response.ok, or the throw
settleFetch(f) ==
  /\ norm.fetches[f].state = "pending"
  /\ \E ok \in BOOLEAN :
       norm' = [norm EXCEPT
         !.fetches[f].state = IF ok THEN "fulfilled" ELSE "rejected",
         !.settled = Append(norm.settled, f)]
  /\ UNCHANGED <<now, store, env, issued, calls, pc, variant, tokens, accessToken,
                 newTokens, e, result, log, granted, config, http, peer>>

\* the first fetch, in the order of completion, that was rejected
firstRejected(n) ==
  n.settled[CHOOSE i \in DOMAIN n.settled :
              /\ n.fetches[n.settled[i]].state = "rejected"
              /\ \A j \in 1..(i - 1) : n.fetches[n.settled[j]].state # "rejected"]

\* mutant: the merge starts as soon as the cycles are there
joined_CyclesOnly(n) == n.fetches["cycles"].state = "fulfilled"

\* Promise.all is fulfilled: every fetch is
joined(n) == \A f \in DOMAIN n.fetches : n.fetches[f].state = "fulfilled"

\* the records the merge reads from a fetch
fetched(n, f, records) == IF n.fetches[f].state = "fulfilled" THEN records ELSE << >>

\* await Promise.all([...]) resumes: it throws the first rejection, or the
\* function merges the two record lists and returns
join ==
  /\ norm.op = "getWhoopDailyStats"
  /\ ~norm.returned
  /\ IF \E f \in DOMAIN norm.fetches : norm.fetches[f].state = "rejected"
     THEN norm' = [norm EXCEPT !.returned = TRUE, !.failed = TRUE,
                               !.error = firstRejected(norm)]
     ELSE /\ joined(norm)
          /\ norm' = [norm EXCEPT
               !.returned = TRUE,
               !.out = getWhoopDailyStats(fetched(norm, "cycles", norm.cycles),
                                          fetched(norm, "recoveries", norm.recoveries))]
  /\ UNCHANGED <<now, store, env, issued, calls, pc, variant, tokens, accessToken,
                 newTokens, e, result, log, granted, config, http, peer>>

DailyFetchNext ==
  \/ issueFetches
  \/ \E f \in {"cycles", "recoveries"} : settleFetch(f)
  \/ join

DailyFetchSpec == DailyFetchInit /\ [][DailyFetchNext]_vars

\* C23: getWhoopDailyStats issues the cycles fetch and the recoveries fetch
\* together, with the same access token, neither waiting for the other; it
\* returns entries only when both have been fulfilled, and the entries are
\* those of the two responses whatever the order of completion (one per
\* scored cycle, with the recovery of its cycle when that is scored); when a
\* fetch is rejected the call throws and has no output at all.
C23_FetchesJoinedBeforeMerge ==
  /\ \A f \in DOMAIN norm.fetches :
       /\ norm.fetches[f].state # "unissued" => norm.fetches[f].token = norm.accessToken
       /\ norm.fetches[f].state = "unissued" => norm.settled = << >>
  /\ (norm.returned /\ ~norm.failed) =>
       /\ \A f \in DOMAIN norm.fetches : norm.fetches[f].state = "fulfilled"
       /\ Len(norm.out) = Cardinality(ScoredCycles)
       /\ \A i \in DOMAIN norm.out :
            /\ norm.out[i].date \in ScoredCycles
            /\ norm.out[i].recovery # Null
                 <=> ScoredRecoveries(norm.cycles[norm.out[i].date].id) # {}
  /\ (norm.returned /\ norm.failed) =>
       /\ norm.out = << >>
       /\ norm.fetches[norm.error].state = "rejected"
  /\ (\E f \in DOMAIN norm.fetches : norm.fetches[f].state = "rejected")
       => ~(norm.returned /\ ~norm.failed)

\* the recoveries came back before the cycles and the entry has its recovery
C23_Witness ==
  /\ norm.returned /\ ~norm.failed
  /\ norm.settled = <<"recoveries", "cycles">>
  /\ Len(norm.out) = 1 /\ norm.out[1].recovery # Null

(* ------------------ two providers behind one Redis store --------------- *)

\* the records a provider may have when the first request arrives
ProviderRecords ==
  {Null,
   [accessToken |-> <<"at", 0>>, refreshToken |-> <<"rt", 0>>, expiresAt |-> NearExpiry],
   [accessToken |-> <<"at", 0>>, refreshToken |-> <<"rt", 0>>, expiresAt |-> FarExpiry]}

\* the deployment of api/mcp/[withingsKey]/[whoopKey] and the keepalive job:
\* each provider has its own record, or none
IsolationInit ==
  /\ Quiescent
  /\ norm = Null
  /\ \E w \in ProviderRecords, h \in ProviderRecords :
       store = [k \in StoreKeys |->
                  CASE k = "redis:withings_tokens" -> w
                    [] k = "redis:whoop_tokens" -> h
                    [] OTHER -> Null]
  /\ \E configured \in BOOLEAN : env = [p \in Providers |-> configured]

IsolationNext ==
  \/ Tick
  \/ \E v \in Providers : refreshTool(v)
  \/ keepalive
  \/ \E v \in Providers : callWithAutoRefresh(v)
  \/ ensureValidToken
  \/ proactiveRefresh
  \/ proactiveSave
  \/ fn
  \/ reactiveGetTokens
  \/ reactiveRefresh
  \/ reactiveSave
  \/ retry
  \/ settle

IsolationSpec == IsolationInit /\ [][IsolationNext]_vars

\* the fixed key of a provider's record
OwnKey(p) == IF p = "whoop" THEN "redis:whoop_tokens" ELSE "redis:withings_tokens"

\* the key of the other provider's record
OtherKey(p) == IF p = "whoop" THEN "redis:withings_tokens" ELSE "redis:whoop_tokens"

\* C26: each provider's record lives under its own key.  A tool call of one
\* provider loads its own record (or the static tokens, or nothing) and
\* never the other provider's; no step of a tool call, no manual refresh and
\* no keepalive step of one provider, successful or failed, changes the
\* record of the other.
C26_ProvidersAreIsolated ==
  /\ [](\A i \in DOMAIN log :
          log[i].ev = "load" =>
            IF log[i].ok /\ log[i].store[OwnKey(variant)] # Null
            THEN log[i].rec = log[i].store[OwnKey(variant)]
            ELSE log[i].rec \in {Null, EnvRecord(variant)})
  /\ [][
        /\ (pc # "idle" => store'[OtherKey(variant)] = store[OtherKey(variant)])
        /\ \A v \in Providers :
             refreshTool(v) =>
               /\ store'[OtherKey(v)] = store[OtherKey(v)]
               /\ ((store[OwnKey(v)] = Null /\ ~env[v])
                     => result' = NoTokensConfigured)
        /\ (keepalive /\ result'.status = 200) =>
             /\ (result'.results[1] # "refreshed" =>
                   store'["redis:withings_tokens"] = store["redis:withings_tokens"])
             /\ (result'.results[2] # "refreshed" =>
                   store'["redis:whoop_tokens"] = store["redis:whoop_tokens"])
             /\ ((result'.results[1] = "refreshed"
                   /\ store["redis:whoop_tokens"] = Null)
                  => store'["redis:whoop_tokens"] = Null)
     ]_vars

\* a WHOOP call has refreshed and saved while Withings has no record, and a
\* Withings record was never created
C26_Witness ==
  /\ variant = "whoop" /\ pc = "done"
  /\ store["redis:whoop_tokens"] # Null
  /\ store["redis:whoop_tokens"].accessToken = <<"at", 1>>
  /\ store["redis:withings_tokens"] = Null
  /\ \E i \in DOMAIN log : log[i].ev = "save" /\ log[i].ok

(* ------------------ the copies of the wrapper side by side ------------- *)

\* the copies that serve Withings
WithingsCopies == {"blob", "kv", "key", "withings"}

\* what fn does when it is invoked: it returns, or throws with a message
FnOutcomes ==
  {[failed |-> FALSE, message |-> Empty]}
    \cup {[failed |-> TRUE, message |-> m] :
            m \in {Empty, <<"H", "T", "T", "P", " ", "4", "0", "1">>, <<"5", "0", "0">>}}

\* the surroundings of one call: the stored record, the static tokens, the
\* clock, and for the first and the second time each of them is used the
\* outcome of the store read, of the token endpoint, of the store write and
\* of fn
Scenarios ==
  [rec : InitRecords \cup {Null}, static : BOOLEAN, clock : {T0},
   reads : [1..2 -> BOOLEAN], accepts : [1..2 -> BOOLEAN],
   writes : [1..2 -> BOOLEAN], fns : [1..2 -> FnOutcomes]]

\* getTokens on a store that holds rec
tokensFrom(rec, static, readOk) ==
  IF readOk /\ rec # Null THEN rec
  ELSE IF static THEN EnvRecord("withings")
  ELSE Null

\* what a call has done when it ends: the refresh tokens presented to the
\* token endpoint, the access tokens fn was invoked with, the result
Ended(refreshes, invocations, res) ==
  [refreshes |-> refreshes, invocations |-> invocations, result |-> res]

\* callWithAutoRefresh of copy v from fn(accessToken) on: n token pairs were
\* issued so far, the store holds rec
runFn(v, sc, refreshes, n, at, rec) ==
  IF ~sc.fns[1].failed THEN Ended(refreshes, <<at>>, Return(at))
  ELSE
    LET e0 == FnError(1, sc.fns[1].message)
        t2 == tokensFrom(rec, sc.static, sc.reads[2])
    IN
      IF ~isAuthError(v, sc.fns[1].message) THEN Ended(refreshes, <<at>>, Throw(e0))
      ELSE IF t2 = Null THEN Ended(refreshes, <<at>>, Throw(e0))
      ELSE IF ~Truthy(t2.refreshToken) THEN Ended(refreshes, <<at>>, Throw(e0))
      ELSE IF ~sc.accepts[2]
      THEN Ended(Append(refreshes, t2.refreshToken), <<at>>,
                 Throw(rethrowInner(RefreshFailed, e0)))
      ELSE IF ~(sc.writes[2] \/ swallowsSaveFailure(v))
      THEN Ended(Append(refreshes, t2.refreshToken), <<at>>,
                 Throw(rethrowInner(StoreWriteFailed, e0)))
      ELSE
        LET arg == retryArgument(TokenResponse(n + 1, 10800), at) IN
          Ended(Append(refreshes, t2.refreshToken), <<at, arg>>,
                IF ~sc.fns[2].failed THEN Return(arg)
                ELSE Throw(rethrowInner(FnError(2, sc.fns[2].message), e0)))

\* callWithAutoRefresh of copy v, run to its end in the surroundings sc
runCall(v, sc) ==
  LET t == tokensFrom(sc.rec, sc.static, sc.reads[1]) IN
    IF t = Null THEN Ended(<< >>, << >>, Throw(NotAuthorized))
    ELSE IF ~needsProactiveRefresh(v, t, sc.clock)
    THEN runFn(v, sc, << >>, 0, t.accessToken, sc.rec)
    ELSE IF ~Truthy(t.refreshToken)
    THEN Ended(<< >>, << >>, Throw(ensureCatch(RefreshFailed)))
    ELSE IF ~sc.accepts[1]
    THEN Ended(<<t.refreshToken>>, << >>, Throw(ensureCatch(RefreshFailed)))
    ELSE IF ~(sc.writes[1] \/ swallowsSaveFailure(v))
    THEN Ended(<<t.refreshToken>>, << >>, Throw(ensureCatch(StoreWriteFailed)))
    ELSE runFn(v, sc, <<t.refreshToken>>, 1, TokenResponse(1, 10800).access_token,
               IF sc.writes[1] THEN StoredOf(TokenResponse(1, 10800), sc.clock)
               ELSE sc.rec)

\* the same call is about to be made on every copy
CopiesInit ==
  /\ Quiescent
  /\ store = [k \in StoreKeys |-> Null]
  /\ env = [p \in Providers |-> FALSE]
  /\ \E sc \in Scenarios :
       norm = [op |-> "callWithAutoRefresh", scenario |-> sc, returned |-> FALSE,
               out |-> [v \in WithingsCopies |-> Null]]

\* every copy makes the call
runCopies ==
  /\ norm.op = "callWithAutoRefresh" /\ ~norm.returned
  /\ norm' = [norm EXCEPT
       !.returned = TRUE,
       !.out = [v \in WithingsCopies |-> runCall(v, norm.scenario)]]
  /\ UNCHANGED <<now, store, env, issued, calls, pc, variant, tokens, accessToken,
                 newTokens, e, result, log, granted, config, http, peer>>

CopiesSpec == CopiesInit /\ [][runCopies]_vars

\* C27: the four Withings copies of callWithAutoRefresh, run on the same
\* stored record, clock, token-endpoint behaviour, store-write behaviour and
\* outcomes of the operation, present the same refresh tokens, invoke the
\* operation with the same access tokens and end with the same result or
\* error.
C27_CopiesAgree ==
  (norm.op = "callWithAutoRefresh" /\ norm.returned) =>
    \A v, w \in WithingsCopies : norm.out[v] = norm.out[w]

(* --------- the refresh token presented by the reactive refresh --------- *)

\* C28: when the proactive refresh of a call was accepted and the operation
\* then failed with an authorization-shaped error, the reactive refresh of
\* that call presents the refresh token issued by the proactive refresh, and
\* not the one loaded at the start of the call.
C28_ReactivePresentsIssuedToken ==
  \A i \in PhaseIdx("token", "proactive"), j \in PhaseIdx("token", "reactive") :
    log[i].response # Null =>
      /\ log[j].presented = log[i].response.refresh_token
      /\ log[j].presented # log[1].rec.refreshToken

(* ------------- two requests for one provider at the same time ---------- *)

\* the requests that can run beside a tool call
PeerKinds == {"call", "refresh_token", "keepalive"}

\* the record of one provider when the two requests arrive, the same under
\* both Redis keys
RaceInit ==
  /\ Quiescent
  /\ \E r \in ProviderRecords :
       /\ norm = [op |-> "race", initial |-> r]
       /\ store = [k \in StoreKeys |->
                    IF k \in {"redis:withings_tokens", "redis:whoop_tokens"} THEN r
                    ELSE Null]
  /\ \E configured \in BOOLEAN : env = [q \in Providers |-> configured]

\* a second request for the same provider arrives while the tool call is
\* suspended at an await: another tool call, the manual refresh tool, or the
\* keepalive job's block of that provider; it has written nothing yet
arrive(kind) ==
  /\ peer = NoPeer
  /\ pc \notin {"idle", "done"}
  /\ peer' = [kind |-> kind, pc |-> "load", v |-> variant, phase |-> "proactive",
              tokens |-> Null, newTokens |-> Null, saved |-> {}, line |-> ""]
  /\ UNCHANGED <<now, store, env, issued, calls, pc, variant, tokens, accessToken,
                 newTokens, e, result, log, granted, norm, config, http>>

\* what the request reads before it refreshes: the tools call getTokens, the
\* keepalive job calls redis.get and has no static tokens
peerTokens(kind, v, readOk) ==
  IF kind = "keepalive"
  THEN IF readOk THEN store[StoreKey(v)] ELSE Null
  ELSE getTokens(v, readOk)

\* where the request goes once it has read t: the second tool call refreshes
\* first when the record is near expiry and in its catch block when it has a
\* refresh token; the refresh tool and the keepalive job refresh whatever
\* expiresAt is
peerAfterLoad(kind, phase, v, t, readOk, clock) ==
  IF kind = "keepalive"
  THEN IF ~readOk THEN "error"
       ELSE IF t = Null THEN "no tokens"
       ELSE IF Truthy(t.refreshToken) THEN "token" ELSE "no tokens"
  ELSE IF kind = "refresh_token"
  THEN IF t = Null THEN "no tokens"
       ELSE IF Truthy(t.refreshToken) THEN "token" ELSE "error"
  ELSE IF phase = "reactive"
  THEN IF t = Null THEN "error"
       ELSE IF Truthy(t.refreshToken) THEN "token" ELSE "error"
  ELSE IF t = Null THEN "error"
  ELSE IF ~needsProactiveRefresh(v, t, clock) THEN "fn"
  ELSE IF Truthy(t.refreshToken) THEN "token" ELSE "error"

\* const tokens = await getTokens() / const stored = await redis.get(KEY)
peerLoad ==
  /\ peer.kind \in PeerKinds
  /\ peer.pc = "load"
  /\ \E readOk \in BOOLEAN :
       LET t == peerTokens(peer.kind, peer.v, readOk)
           to == peerAfterLoad(peer.kind, peer.phase, peer.v, t, readOk, now)
       IN peer' = IF to \in {"token", "fn"}
                  THEN [peer EXCEPT !.pc = to, !.tokens = t]
                  ELSE [peer EXCEPT !.pc = "done", !.line = to]
  /\ UNCHANGED <<now, store, env, issued, calls, pc, variant, tokens, accessToken,
                 newTokens, e, result, log, granted, norm, config, http>>

\* const newTokens = await refreshAccessToken(config)
peerToken ==
  /\ peer.kind \in PeerKinds
  /\ peer.pc = "token"
  /\ \/ \E secs \in ExpiresIn :
          /\ config.credentials[Provider(peer.v)]
          /\ issued' = issued + 1
          /\ peer' = [peer EXCEPT !.pc = "save",
                                  !.newTokens = TokenResponse(issued + 1, secs)]
     \/ /\ peer' = [peer EXCEPT !.pc = "done", !.line = "error"]
        /\ UNCHANGED issued
  /\ UNCHANGED <<now, store, env, calls, pc, variant, tokens, accessToken,
                 newTokens, e, result, log, granted, norm, config, http>>

\* mutant: the write keeps the refresh token that is in the store
peerSaved_KeepsRefreshToken(st, k, resp, clock) ==
  [st EXCEPT ![k] = [accessToken |-> resp.access_token,
                     refreshToken |-> IF st[k] = Null THEN Empty
                                      ELSE st[k].refreshToken,
                     expiresAt |-> clock + resp.expires_in * 1000]]

\* mutant: nothing is written
peerSaved_Skips(st, k, resp, clock) == st

\* the store after redis.set(KEY, {accessToken, refreshToken, expiresAt})
peerSaved(st, k, resp, clock) == [st EXCEPT ![k] = StoredOf(resp, clock)]

\* await saveTokens(newTokens) / await redis.set(KEY, ...); the second tool
\* call goes on to the operation
peerSave ==
  /\ peer.kind \in PeerKinds
  /\ peer.pc = "save"
  /\ \E writeOk \in BOOLEAN :
       /\ store' = IF writeOk
                   THEN peerSaved(store, StoreKey(peer.v), peer.newTokens, now)
                   ELSE store
       /\ peer' = IF ~writeOk /\ ~(peer.kind = "call" /\ swallowsSaveFailure(peer.v))
                  THEN [peer EXCEPT !.pc = "done", !.line = "error"]
                  ELSE [peer EXCEPT
                          !.pc = IF peer.kind = "call" THEN "fn" ELSE "done",
                          !.line = IF peer.kind = "call" THEN "" ELSE "refreshed",
                          !.saved = IF writeOk
                                    THEN @ \cup {<<peer.newTokens.access_token,
                                                   peer.newTokens.refresh_token>>}
                                    ELSE @]
  /\ UNCHANGED <<now, env, issued, calls, pc, variant, tokens, accessToken,
                 newTokens, e, result, log, granted, norm, config, http>>

\* the operation of the second tool call: it returns, it throws an
\* authorization-shaped error on the first attempt, or it throws another error
peerFn ==
  /\ peer.kind = "call"
  /\ peer.pc = "fn"
  /\ \/ peer' = [peer EXCEPT !.pc = "done", !.line = "returned"]
     \/ peer' = [peer EXCEPT !.pc = "done", !.line = "error"]
     \/ /\ peer.phase = "proactive"
        /\ peer' = [peer EXCEPT !.pc = "load", !.phase = "reactive"]
  /\ UNCHANGED <<now, store, env, issued, calls, pc, variant, tokens, accessToken,
                 newTokens, e, result, log, granted, norm, config, http>>

RaceNext ==
  \/ \E v \in Providers : callWithAutoRefresh(v)
  \/ \E kind \in PeerKinds : arrive(kind)
  \/ peerLoad
  \/ peerToken
  \/ peerSave
  \/ peerFn
  \/ ensureValidToken
  \/ proactiveRefresh
  \/ proactiveSave
  \/ fn
  \/ reactiveGetTokens
  \/ reactiveRefresh
  \/ reactiveSave
  \/ retry

RaceSpec == RaceInit /\ [][RaceNext]_vars

\* the Redis keys of the two providers
RedisKeys == {"redis:withings_tokens", "redis:whoop_tokens"}

\* the record saveTokens writes for the n-th pair the token endpoint issued
IssuedRecords(n) ==
  {StoredOf(TokenResponse(n, secs), T0 + i * TickMs) :
     secs \in ExpiresIn, i \in 0..MaxTicks}

\* C29: under every interleaving of a tool call with a second tool call, a
\* manual refresh or a keepalive run for the same provider, the stored record
\* is the record the requests found or one complete pair of a single token
\* response: the access token and the refresh token of the n-th response with
\* the expiry computed from it, never parts of two responses.
C29_StoredPairIsWhole ==
  \A k \in RedisKeys :
    \/ store[k] = norm.initial
    \/ \E n \in 1..issued : store[k] \in IssuedRecords(n)

\* a tool call and a manual refresh have both refreshed and saved, one after
\* the other
C29_Witness ==
  /\ pc = "done"
  /\ peer.kind = "refresh_token" /\ peer.pc = "done" /\ peer.line = "refreshed"
  /\ PhaseIdx("save", "proactive") # {}
  /\ issued = 2
  /\ store[StoreKey(variant)] \in IssuedRecords(2)

\* both requests have run to their end
Completed ==
  /\ pc = "done"
  /\ peer.kind \in PeerKinds
  /\ peer.pc = "done"

\* the token pair of a stored record
PairOf(rec) == <<rec.accessToken, rec.refreshToken>>

\* the pairs the call with log l wrote to the store
SavedBy(l) == {PairOf(l[i].rec) : i \in {j \in 1..Len(l) : l[j].ev = "save" /\ l[j].ok}}

\* the pairs the two requests wrote to the store
Written == SavedBy(log) \cup (IF peer.kind \in PeerKinds THEN peer.saved ELSE {})

\* C30 as stated: after two concurrent refreshes of one provider have
\* completed, the stored record holds the pair the token endpoint issued
\* last.
C30_Original ==
  (Completed /\ issued >= 2) =>
    store[StoreKey(variant)].refreshToken = <<"rt", issued>>

\* C30 amended: every change of the store is a save that puts the pair of
\* the request taking the step under the provider's key, so the save that
\* completes last wins; after two concurrent requests have completed the
\* stored record holds one of the pairs they wrote, which need not be the
\* pair issued last, and the record they found when neither wrote.
C30_LastSaveWins ==
  /\ [](Completed =>
          IF Written = {} THEN store[StoreKey(variant)] = norm.initial
          ELSE PairOf(store[StoreKey(variant)]) \in Written)
  /\ [][ (store' # store) =>
           IF peer' # peer
           THEN store' = [store EXCEPT ![StoreKey(peer.v)] = StoredOf(peer.newTokens, now)]
           ELSE store' = [store EXCEPT ![StoreKey(variant)] = StoredOf(newTokens, now)]
       ]_vars

\* the lost update: both requests wrote, and the record left in the store is
\* the pair issued first, whose refresh token the second refresh superseded
C30_Witness ==
  /\ Completed
  /\ issued = 2
  /\ Written = {<<<<"at", 1>>, <<"rt", 1>>>>, <<<<"at", 2>>, <<"rt", 2>>>>}
  /\ store[StoreKey(variant)].refreshToken = <<"rt", 1>>

(* ------------------------- termination of a call ----------------------- *)

\* one step of the callWithAutoRefresh call under way: the store access, the
\* token-endpoint call or the invocation it awaits returns or fails
callStep ==
  \/ ensureValidToken
  \/ proactiveRefresh
  \/ proactiveSave
  \/ fn
  \/ reactiveGetTokens
  \/ reactiveRefresh
  \/ reactiveSave
  \/ retry

\* one call of any copy, from its entry to its end, while time passes
CallNext ==
  \/ Tick
  \/ \E v \in Variants : callWithAutoRefresh(v)
  \/ callStep

\* every awaited call of the wrapper eventually settles
LiveSpec == Init /\ [][CallNext]_vars /\ WF_vars(callStep)

\* a call is under way
Running == pc \notin {"idle", "done"}

\* C31: provided every awaited store access, token-endpoint call and
\* invocation settles, every call that has started ends with a result or an
\* error; on the way it calls the token endpoint at most once proactively
\* and at most once reactively and invokes the operation at most twice.
C31_CallTerminatesWithinTwoRefreshes ==
  /\ [](/\ Cardinality(PhaseIdx("token", "proactive")) <= 1
        /\ Cardinality(PhaseIdx("token", "reactive")) <= 1
        /\ Cardinality(FnIdx) <= 2
        /\ pc = "done" => (result # Null /\ result.kind \in {"ok", "error"}))
  /\ (Running ~> pc = "done")

\* the longest call: two accepted refreshes and two invocations
C31_Witness ==
  /\ pc = "done"
  /\ Cardinality(TokenIdx) = 2 /\ \A i \in TokenIdx : log[i].response # Null
  /\ Cardinality(FnIdx) = 2
  /\ result.kind = "error"

(* ------------- an authorization failure with nothing to refresh -------- *)

\* the reload of the catch block has happened and found no refresh token
ReloadedWithoutRefreshToken ==
  /\ FirstFnFailed
  /\ Len(log) > FirstFn
  /\ log[FirstFn + 1].ev = "load"
  /\ (log[FirstFn + 1].rec = Null \/ ~Truthy(log[FirstFn + 1].rec.refreshToken))

\* C32: when the first invocation fails with an authorization marker and the
\* record reloaded in the catch block is absent or has no refresh token, the
\* call ends right there with the error of the first invocation, unchanged;
\* no token-endpoint call and no second invocation follow and the store is
\* as it was.
C32_NothingToRefreshRethrows ==
  ReloadedWithoutRefreshToken
  => /\ Marked(variant, log[FirstFn].message)
     /\ pc = "done"
     /\ Len(log) = FirstFn + 1
     /\ ReactiveTokens = {} /\ Retries = {}
     /\ result = Throw(FnError(1, log[FirstFn].message))
     /\ store = log[FirstFn].store

\* the store held a record when the call began; the reload fails and no
\* static tokens are configured
C32_Witness ==
  /\ ReloadedWithoutRefreshToken
  /\ variant = "whoop" /\ ~env["whoop"]
  /\ log[1].ok /\ ~log[FirstFn + 1].ok /\ log[FirstFn + 1].rec = Null
  /\ result.kind = "error" /\ result.err.attempt = 1

(* ------------- a record near expiry without a refresh token ------------ *)

\* C33: when the record loaded at the start of a call is near expiry
\* (expiresAt > 0 and expiresAt < now + 5 minutes) and its refresh token is
\* empty, the call makes no proactive token-endpoint call, its next step is
\* the invocation of the operation with the stored access token, and it
\* does not end with NotAuthorized.
C33_NearExpiryWithoutRefreshTokenIsUsed ==
  (NearExpiryLoaded /\ ~Truthy(Loaded.refreshToken))
  => /\ PhaseIdx("token", "proactive") = {}
     /\ Len(log) = 1 => pc = "fn"
     /\ Len(log) >= 2 => (log[2].ev = "fn" /\ log[2].token = Loaded.accessToken)
     /\ pc = "done" => result # Throw(NotAuthorized)

(* ------------------- the token store: set, then get -------------------- *)

\* number of token pairs saved in one exploration of the token store
MaxSaves == 2

\* a deployment of the five copies: what the stores hold, whether static
\* tokens are configured, and whether BLOB_TOKEN_URL is set; nothing has
\* been saved or loaded yet
TokenStoreInit ==
  /\ Quiescent
  /\ \E r \in InitRecords \cup {Null} : store = [k \in StoreKeys |-> r]
  /\ \E configured \in BOOLEAN : env = [p \in Providers |-> configured]
  /\ \E url \in BOOLEAN :
       norm = [op |-> "store", blobUrl |-> url, saved |-> [k \in StoreKeys |-> Null],
               by |-> "none", ok |-> FALSE, loaded |-> Null]

\* saveTokens(newTokens) of copy v after an accepted refresh: put / kv.set /
\* redis.set of the record built from the response
saveTokens(v) ==
  /\ norm.op = "store"
  /\ issued < MaxSaves
  /\ issued' = issued + 1
  /\ \E secs \in ExpiresIn, writeOk \in BOOLEAN :
       LET rec == StoredOf(TokenResponse(issued + 1, secs), now) IN
         /\ store' = IF writeOk THEN [store EXCEPT ![StoreKey(v)] = rec] ELSE store
         /\ norm' = [norm EXCEPT !.saved[StoreKey(v)] = IF writeOk THEN rec ELSE @,
                                 !.by = "none", !.ok = FALSE, !.loaded = Null]
  /\ UNCHANGED <<now, env, calls, pc, variant, tokens, accessToken, newTokens, e,
                 result, log, granted, config, http, peer>>

\* getTokens() of copy v; the blob copy fetches process.env.BLOB_TOKEN_URL
\* and reads nothing when that variable is not set
loadTokens(v) ==
  /\ norm.op = "store"
  /\ \E readOk \in BOOLEAN :
       norm' = [norm EXCEPT
                  !.by = v, !.ok = readOk,
                  !.loaded = getTokens(v, readOk /\ (v = "blob" => norm.blobUrl))]
  /\ UNCHANGED <<now, store, env, issued, calls, pc, variant, tokens, accessToken,
                 newTokens, e, result, log, granted, config, http, peer>>

TokenStoreNext ==
  \/ \E v \in Variants : saveTokens(v)
  \/ \E v \in Variants : loadTokens(v)

TokenStoreSpec == TokenStoreInit /\ [][TokenStoreNext]_vars

\* C34: once a save of a copy has succeeded, every later load of that copy
\* returns exactly the record saved last (same access token, refresh token
\* and expiresAt), not the static tokens, not nothing and not an older
\* record.
C34_SaveThenLoadRoundTrips ==
  (norm.by # "none" /\ norm.saved[StoreKey(norm.by)] # Null)
  => norm.loaded = norm.saved[StoreKey(norm.by)]

(* --------------------------- the manual refresh ------------------------ *)

\* the step in which the refresh tool of the request runs
RefreshToolRuns ==
  /\ http.stage = "dispatch"
  /\ http.request.body.tool = "refresh_token"
  /\ result = Null /\ result' # Null

\* C35: the manual refresh tool answers 'No tokens configured.' exactly when
\* no record can be loaded, and then calls no token endpoint and writes
\* nothing.  Otherwise it refreshes whatever expiresAt is: when a pair is
\* issued the provider's record becomes that pair (unless the write itself
\* fails); when none is issued, because the token endpoint rejects the
\* refresh or the record has no refresh token, the store is unchanged and
\* the caller gets the failure.
C35_ManualRefreshIsUnconditional ==
  [][ RefreshToolRuns =>
        LET v == http.request.variant
            fresh == StoredOf(TokenResponse(issued + 1, 10800), now)
        IN /\ (store[StoreKey(v)] = Null /\ ~env[Provider(v)])
                => result' = NoTokensConfigured
           /\ (result' = NoTokensConfigured)
                => (~env[Provider(v)] /\ store' = store /\ issued' = issued)
           /\ (issued' = issued)
                => /\ store' = store
                   /\ result' \in {NoTokensConfigured, Throw(RefreshFailed)}
           /\ (issued' # issued)
                => /\ issued' = issued + 1
                   /\ store[StoreKey(v)] # Null \/ env[Provider(v)]
                   /\ \/ /\ store' = [store EXCEPT ![StoreKey(v)] = fresh]
                         /\ result' = Return("Token refreshed")
                      \/ /\ store' = store
                         /\ result' = IF swallowsSaveFailure(v)
                                      THEN Return("Token refreshed")
                                      ELSE Throw(StoreWriteFailed)
    ]_vars

\* a record that is far from expiry has been refreshed and replaced
C35_Witness ==
  /\ Responded
  /\ http.request.body.tool = "refresh_token"
  /\ http.request.variant = "whoop"
  /\ result = Return("Token refreshed")
  /\ issued = 1
  /\ store["redis:whoop_tokens"].accessToken = <<"at", 1>>
  /\ store["redis:withings_tokens"] # Null
  /\ store["redis:withings_tokens"].expiresAt = FarExpiry

(* ---------------------------- the keepalive job ------------------------ *)

\* process.env.CRON_SECRET: not set (the empty tuple) or set to a value
CronSecrets == {<< >>, <<"s3cret">>}

\* what `${process.env.CRON_SECRET}` interpolates: an unset variable is the
\* value undefined, which a template literal renders as "undefined"
Interpolated(secret) == IF secret = << >> THEN "undefined" ELSE secret[1]

\* req.headers.get("authorization"): null (the empty tuple), a bare value,
\* or "Bearer " followed by a value
AuthorizationHeaders ==
  {<< >>, <<"s3cret">>} \cup
    {<<"Bearer", x>> : x \in {"s3cret", "wrong", "undefined", ""}}

\* req.headers.get("authorization") !== `Bearer ${process.env.CRON_SECRET}`
cronRejected(header, secret) == header # <<"Bearer", Interpolated(secret)>>

\* the deployment of the keepalive job: each provider's record, or none, and
\* CRON_SECRET
CronInit ==
  /\ Quiescent
  /\ \E secret \in CronSecrets : norm = [op |-> "keepalive", CRON_SECRET |-> secret]
  /\ \E w \in InitRecords \cup {Null}, h \in InitRecords \cup {Null} :
       store = [k \in StoreKeys |->
                  CASE k = "redis:withings_tokens" -> w
                    [] k = "redis:whoop_tokens" -> h
                    [] OTHER -> Null]
  /\ env = [p \in Providers |-> FALSE]

\* a GET request reaches api/cron/keepalive
cronRequest ==
  /\ http = NoRequest
  /\ \E header \in AuthorizationHeaders :
       http' = [stage |-> "cron", request |-> [authorization |-> header],
                response |-> Null]
  /\ UNCHANGED <<now, store, env, issued, calls, pc, variant, tokens, accessToken,
                 newTokens, e, result, log, granted, norm, config, peer>>

\* GET of api/cron/keepalive for that request: the 401 branch is taken
\* exactly when the header check rejects it
GET ==
  /\ http.stage = "cron"
  /\ result = Null
  /\ keepalive
  /\ cronRejected(http.request.authorization, norm.CRON_SECRET)
       <=> (result'.status = 401)

CronNext == cronRequest \/ GET

CronSpec == CronInit /\ [][CronNext]_vars

\* the job has answered the request
CronAnswered == http.stage = "cron" /\ result # Null

\* C36: the keepalive job reads and writes no record and calls no token
\* endpoint unless the Authorization header of the request is 'Bearer '
\* followed by the configured cron secret; every other request is answered
\* 401.
C36_CronSecretGuardsKeepalive ==
  CronAnswered =>
    IF /\ norm.CRON_SECRET # << >>
       /\ http.request.authorization = <<"Bearer", norm.CRON_SECRET[1]>>
    THEN result.status = 200
    ELSE /\ result.status = 401
         /\ issued = 0
         /\ \A k \in StoreKeys : store[k] = Null \/ store[k] \in InitRecords

\* the job runs its two blocks for the request
KeepaliveRuns ==
  /\ http.stage = "cron"
  /\ result = Null /\ result' # Null
  /\ result'.status = 200

\* the keys of the two blocks, in the order the job takes them
BlockKeys == <<"redis:withings_tokens", "redis:whoop_tokens">>

\* C37: an authorized keepalive run answers 200 with one result line per
\* provider, each decided by that provider's own record and calls alone: a
\* provider whose record is absent or has no refresh token gets no
\* token-endpoint call and no write, a provider is reported refreshed
\* exactly when its record was replaced by a newly issued pair, and whatever
\* happens to Withings the WHOOP block still runs.
C37_KeepaliveBlocksAreIndependent ==
  [][ KeepaliveRuns =>
        /\ Len(result'.results) = 2
        /\ \A i \in 1..2 :
             LET held == store[BlockKeys[i]]
                 line == result'.results[i]
                 idle == held = Null \/ ~Truthy(held.refreshToken)
             IN /\ line \in {"refreshed", "no tokens found", "error"}
                /\ idle => (line # "refreshed" /\ store'[BlockKeys[i]] = held)
                /\ (line = "no tokens found") => idle
                /\ (line = "refreshed")
                     <=> (/\ store'[BlockKeys[i]] # held
                          /\ store'[BlockKeys[i]].expiresAt = now + 10800 * 1000
                          /\ \E n \in (issued + 1)..issued' :
                               /\ store'[BlockKeys[i]].accessToken = <<"at", n>>
                               /\ store'[BlockKeys[i]].refreshToken = <<"rt", n>>)
        /\ issued' - issued <=
             Cardinality({i \in 1..2 : store[BlockKeys[i]] # Null
                                        /\ Truthy(store[BlockKeys[i]].refreshToken)})
    ]_vars

\* the Withings block failed and the WHOOP block refreshed all the same
C37_Witness ==
  /\ CronAnswered
  /\ result.status = 200
  /\ result.results = <<"error", "refreshed">>
  /\ store["redis:withings_tokens"] \in InitRecords
  /\ store["redis:whoop_tokens"].refreshToken = <<"rt", issued>>

(* ------------------- the tool registry and the dispatcher -------------- *)

\* the HTTP endpoints: the two copies of api/mcp.ts, api/mcp/[key].ts, and
\* api/mcp/[withingsKey]/[whoopKey]
Endpoints == {endpoint(v) : v \in Variants}

\* the names of Object.values(TOOLS), the answer to tools/list
TOOLS(ep) ==
  IF ep = "health"
  THEN {"withings_get_auth_url", "withings_get_weight", "withings_get_latest_weight",
        "withings_refresh_token", "whoop_get_auth_url", "whoop_get_daily_stats",
        "whoop_get_workouts", "whoop_refresh_token"}
  ELSE {"get_auth_url", "get_weight", "get_latest_weight", "refresh_token"}

\* the names a tools/call request may carry: every listed name of every
\* endpoint, the exchange tool of the README and of the stdio server, and
\* names no endpoint knows
ToolNames ==
  TOOLS("health") \cup TOOLS("key")
    \cup {"exchange_code", "withings_exchange_code", "whoop_get_sleep", "toString", ""}

\* mutant: the switch has no case for the workouts tool
handleToolCall_NoWorkouts(ep, name) ==
  IF ep = "health"
  THEN CASE name \in {"withings_get_auth_url", "whoop_get_auth_url"} -> "get_auth_url"
         [] name \in {"withings_get_weight", "withings_get_latest_weight",
                      "whoop_get_daily_stats"} -> "get_weight"
         [] name \in {"withings_refresh_token", "whoop_refresh_token"} -> "refresh_token"
         [] OTHER -> "no_such_tool"
  ELSE CASE name = "get_auth_url" -> "get_auth_url"
         [] name \in {"get_weight", "get_latest_weight"} -> "get_weight"
         [] name = "refresh_token" -> "refresh_token"
         [] OTHER -> "no_such_tool"

\* the case of switch (name) in handleToolCall that a name selects: one that
\* builds the authorization URL, one that calls a data operation through
\* callWithAutoRefresh, the manual refresh, or the default
handleToolCall(ep, name) ==
  IF ep = "health"
  THEN CASE name \in {"withings_get_auth_url", "whoop_get_auth_url"} -> "get_auth_url"
         [] name \in {"withings_get_weight", "withings_get_latest_weight",
                      "whoop_get_daily_stats", "whoop_get_workouts"} -> "get_weight"
         [] name \in {"withings_refresh_token", "whoop_refresh_token"} -> "refresh_token"
         [] OTHER -> "no_such_tool"
  ELSE CASE name = "get_auth_url" -> "get_auth_url"
         [] name \in {"get_weight", "get_latest_weight"} -> "get_weight"
         [] name = "refresh_token" -> "refresh_token"
         [] OTHER -> "no_such_tool"

\* what the selected case awaits before it returns, and the text of the
\* default case
toolAnswer(case, name) ==
  CASE case = "no_such_tool" -> [awaits |-> {}, text |-> <<"Unknown tool: ", name>>]
    [] case = "get_auth_url" -> [awaits |-> {}, text |-> <<"authUrl">>]
    [] OTHER -> [awaits |-> {"store", "provider"}, text |-> <<case>>]

\* an endpoint and the record its store holds; no request has come yet
RegistryInit ==
  /\ Quiescent
  /\ \E r \in InitRecords \cup {Null} : store = [k \in StoreKeys |-> r]
  /\ env = [p \in Providers |-> FALSE]
  /\ \E ep \in Endpoints :
       norm = [op |-> "registry", endpoint |-> ep, listed |-> {}, called |-> <<>>,
               answer |-> Null]

\* case "tools/list": result = { tools: Object.values(TOOLS) }
toolsList ==
  /\ norm.op = "registry"
  /\ norm' = [norm EXCEPT !.listed = TOOLS(norm.endpoint)]
  /\ UNCHANGED <<now, store, env, issued, calls, pc, variant, tokens, accessToken,
                 newTokens, e, result, log, granted, config, http, peer>>

\* case "tools/call": await handleToolCall(params.name, params.arguments || {})
toolsCall(name) ==
  /\ norm.op = "registry"
  /\ norm' = [norm EXCEPT
       !.called = <<name>>,
       !.answer = toolAnswer(handleToolCall(norm.endpoint, name), name)]
  /\ UNCHANGED <<now, store, env, issued, calls, pc, variant, tokens, accessToken,
                 newTokens, e, result, log, granted, config, http, peer>>

RegistryNext ==
  \/ toolsList
  \/ \E name \in ToolNames : toolsCall(name)

RegistrySpec == RegistryInit /\ [][RegistryNext]_vars

\* C38: in each HTTP endpoint every name tools/list returns selects a case
\* of handleToolCall other than the default, and a tools/call for a name
\* that is not listed awaits neither the store nor a provider and returns
\* the text 'Unknown tool: ' followed by the name.
C38_RegistryAndDispatcherAgree ==
  /\ \A name \in norm.listed :
       /\ handleToolCall(norm.endpoint, name) # "no_such_tool"
       /\ toolAnswer(handleToolCall(norm.endpoint, name), name).text
            # <<"Unknown tool: ", name>>
  /\ (norm.called # << >> /\ norm.called[1] \notin TOOLS(norm.endpoint))
       => norm.answer = [awaits |-> {}, text |-> <<"Unknown tool: ", norm.called[1]>>]
  /\ (norm.called # << >> /\ norm.called[1] \in TOOLS(norm.endpoint))
       => norm.answer.text # <<"Unknown tool: ", norm.called[1]>>

\* the two-provider endpoint has listed its eight tools and has answered a
\* call for get_weight, a tool of the other endpoints only, with the default
C38_Witness ==
  /\ norm.endpoint = "health"
  /\ Cardinality(norm.listed) = 8
  /\ norm.called = <<"get_weight">>
  /\ norm.answer.text = <<"Unknown tool: ", "get_weight">>

(* ------------------------- the latest weight --------------------------- *)

\* number of measurement groups the provider returns for the last 30 days
MaxFetched == 3

\* the date of a group in epoch seconds; two groups may carry the same one
FetchedDates == 1..3

\* what a fetched group measures: 7.00 kg, nothing above 0, 0.145 kg
FetchedMeasures ==
  {<<[type |-> WEIGHT, value |-> 700, unit |-> -2]>>,
   <<[type |-> FAT_RATIO, value |-> 21456, unit |-> -3],
     [type |-> WEIGHT, value |-> 0, unit |-> 0]>>,
   <<[type |-> WEIGHT, value |-> 145, unit |-> -3]>>}

\* new Date(d.date).getTime(): the date of a record is the string that
\* toISOString wrote, held here as the milliseconds it spells out
getTime(d) == d.date

\* mutant: the comparison is the other way round
compareFn_Ascending(a, b) == getTime(a) - getTime(b)

\* (a, b) => new Date(b.date).getTime() - new Date(a.date).getTime()
compareFn(a, b) == getTime(b) - getTime(a)

\* the place of x in a sorted list: behind every element that does not
\* compare above it (Array.prototype.sort is stable)
insertSorted(sorted, x) ==
  LET before == {j \in DOMAIN sorted : compareFn(sorted[j], x) <= 0}
      k == Cardinality(before)
  IN  [j \in 1..(Len(sorted) + 1) |->
         IF j <= k THEN sorted[j]
         ELSE IF j = k + 1 THEN x
         ELSE sorted[j - 1]]

RECURSIVE sortFrom(_, _, _)
\* data.sort(compareFn), the elements from the i-th on inserted in turn
sortFrom(sorted, data, i) ==
  IF i > Len(data) THEN sorted
  ELSE sortFrom(insertSorted(sorted, data[i]), data, i + 1)

\* case "get_latest_weight": the text for an empty list, the first record of
\* the sorted list otherwise (latest is what JSON.stringify is given)
latestWeight(data) ==
  IF Len(data) = 0
  THEN [text |-> "No measurements in last 30 days.", latest |-> Null]
  ELSE [text |-> "JSON.stringify(latest, null, 2)",
        latest |-> sortFrom(<< >>, data, 1)[1]]

\* the provider has answered the request for the last 30 days
LatestWeightInit ==
  /\ Quiescent
  /\ store = [k \in StoreKeys |-> Null]
  /\ env = [p \in Providers |-> FALSE]
  /\ \E n \in 0..MaxFetched :
       \E d \in [1..n -> FetchedDates], f \in [1..n -> FetchedMeasures] :
         norm = [op |-> "get_latest_weight",
                 measureGroups |-> [i \in 1..n |-> [date |-> d[i], measures |-> f[i]]],
                 returned |-> FALSE, out |-> Null]

\* getWeightMeasurements returns parseWeightData(data.body.measuregrps) and
\* the tool picks the latest of it
getLatestWeight ==
  /\ norm.op = "get_latest_weight" /\ ~norm.returned
  /\ norm' = [norm EXCEPT !.returned = TRUE,
                          !.out = latestWeight(parseWeightData(norm.measureGroups))]
  /\ UNCHANGED <<now, store, env, issued, calls, pc, variant, tokens, accessToken,
                 newTokens, e, result, log, granted, config, http, peer>>

LatestWeightSpec == LatestWeightInit /\ [][getLatestWeight]_vars

\* the groups of the response whose last weight measure is above 0 when
\* taken to two decimals
ValidGroups ==
  {i \in DOMAIN norm.measureGroups :
     LET ms == norm.measureGroups[i].measures
         w  == lastOfType(ms, WEIGHT, Len(ms))
     IN  w # 0 /\ thousandths(ms[IF w = 0 THEN 1 ELSE w]) >= 5}

\* C39: get_latest_weight returns a valid weight measurement of the fetched
\* list whose date no other valid measurement of the list exceeds, and when
\* there is no valid measurement it returns the 'no measurements' text and
\* no record.
C39_LatestWeightIsGreatestDate ==
  (norm.op = "get_latest_weight" /\ norm.returned) =>
    IF ValidGroups = {}
    THEN norm.out = [text |-> "No measurements in last 30 days.", latest |-> Null]
    ELSE /\ norm.out.text # "No measurements in last 30 days."
         /\ \E i \in ValidGroups :
              LET ms == norm.measureGroups[i].measures
                  w  == lastOfType(ms, WEIGHT, Len(ms))
              IN  /\ norm.out.latest.date = 1000 * norm.measureGroups[i].date
                  /\ nearestHundredths(norm.out.latest.weight, ms[w])
         /\ \A i \in ValidGroups :
              1000 * norm.measureGroups[i].date <= norm.out.latest.date

\* the response is not in the order of the dates, its newest group has no
\* valid weight, and the tool returns the newest of the other two
C39_Witness ==
  /\ norm.op = "get_latest_weight" /\ norm.returned
  /\ Len(norm.measureGroups) = 3
  /\ norm.measureGroups[1].date = 1
  /\ norm.measureGroups[2].date = 3 /\ 2 \notin ValidGroups
  /\ norm.measureGroups[3].date = 2
  /\ ValidGroups = {1, 3}
  /\ norm.out.latest.date = 2000 /\ norm.out.latest.weight = 14

(* ------------- several recoveries of one cycle in a response ----------- *)

\* the recoveries of the response that belong to cycle c
RecoveriesOf(c) == {j \in DOMAIN norm.recoveries : norm.recoveries[j].cycle_id = c}

\* C40: in the daily stats the entry of a cycle carries a recovery object
\* whenever the recoveries response holds at least one recovery of that
\* cycle's id in state SCORED with its score, whatever the states of the
\* other recoveries of the same cycle_id in the response.
C40_ScoredRecoveryIsCarried ==
  DailyReturned =>
    \A i \in DOMAIN norm.out :
      ScoredRecoveries(norm.cycles[norm.out[i].date].id) # {}
        => norm.out[i].recovery # Null

\* with one recovery per cycle at most, a scored recovery is always carried
CarriedWithoutDuplicates ==
  DailyReturned =>
    \A i \in DOMAIN norm.out :
      LET c == norm.cycles[norm.out[i].date].id IN
        (ScoredRecoveries(c) # {} /\ Cardinality(RecoveriesOf(c)) = 1)
          => norm.out[i].recovery # Null

\* of two recoveries of one cycle the later one decides
LastRecoveryDecides ==
  DailyReturned =>
    \A i \in DOMAIN norm.out :
      LET c    == norm.cycles[norm.out[i].date].id
          last == CHOOSE j \in RecoveriesOf(c) : \A k \in RecoveriesOf(c) : k <= j
      IN  RecoveriesOf(c) # {} =>
            (norm.out[i].recovery # Null <=> last \in ScoredRecoveries(c))

=============================================================================
